---- MODULE Spec2Model ----
(***************************************************************************)
(* Job lifecycle and status derivation of the protein tools server.        *)
(*                                                                         *)
(* The job output tree /data/zqjd/containers/<tool>/output/<job-id>/ is    *)
(* the only job state the server keeps.  The model holds that tree, the    *)
(* child processes the server has spawned, and the last answer the server  *)
(* gave to a query.                                                        *)
(*                                                                         *)
(* File names are sequences of tokens, cut so that every pattern the code  *)
(* tests (endsWith('.done.txt'), endsWith('error.txt'),                    *)
(* endsWith('log.txt'), endsWith('_error.txt'), /failed/i) falls on token  *)
(* boundaries: "<id>_error.txt" is <<id, "_", "error", ".txt">>.           *)
(***************************************************************************)
EXTENDS Integers, Sequences, FiniteSets, TLC

VARIABLES
    fs,         \* fs[tool][id]: the entry <containers>/<tool>/output/<id>
    dirOrder,   \* the order in which the file system lists a directory
    now,        \* wall clock
    faults,     \* failures of the disk or of spawn met so far
    issued,     \* number of job ids uuidv4() has handed out
    jobs,       \* jobs[id]: the in-memory job object createJob returned
    procs,      \* procs[id][sup]: the child process supervisor sup spawned
    serverUp,   \* FALSE after an uncaught exception ended the node process
    resp        \* the answer to the query made in the last step

vars == <<fs, dirOrder, now, faults, issued, jobs, procs, serverUp, resp>>

----------------------------------------------------------------------------
(* Bounds *)

MaxJobs == 1        \* jobs submitted in one behaviour
MaxPairJobs == 2    \* jobs submitted side by side for one tool
MaxTime == 1        \* clock ticks in one behaviour
MaxLogLines == 2    \* lines of a log file the resolver is given
MaxToolLines == 1   \* lines a running tool appends to its log
MaxFaults == 1      \* failures of the disk or of spawn in one behaviour
MaxBirth == 1       \* latest creation time of a directory found at start
MaxLimit == 2       \* largest limit a listing is asked with
MaxParams == 1      \* parameters a request carries

----------------------------------------------------------------------------
(* Identifiers, tools, file names *)

\* uuidv4() values: fresh on every call
UuidPool == <<"u1", "u2", "u3", "u4">>
\* the first eight characters of each of them
UuidHead == <<"u1head", "u2head", "u3head", "u4head">>
JobIds == {UuidPool[i] : i \in 1..MaxPairJobs}

\* the id JobController.getAllJobs drops from every listing; no job has it
SeqsId == "seqs"

\* the names an entry of an output directory may have
DirIds == JobIds \cup {SeqsId}

\* the names a request may give as job id
Ids == {UuidPool[i] : i \in 1..MaxJobs} \cup {SeqsId}

\* the entries an output directory may hold, in one listing order
OutputNames == UuidPool \o <<SeqsId>>

\* config.tools
ConfigTools == {"proteinmpnn", "colabfold", "foldseek", "colabdock"}

\* the tool directories startServer creates under the containers root
ToolDirs == <<"colabdock", "colabfold", "foldseek", "haddock", "proteinmpnn">>
Tools == {ToolDirs[i] : i \in 1..Len(ToolDirs)}

\* the list both updateJobStatus and deleteJob search, in this order
PossibleJobDirs == <<"colabfold", "foldseek", "proteinmpnn", "haddock">>

DoneName(j) == <<j, ".done", ".txt">>
ErrorName(j) == <<j, "_", "error", ".txt">>
MetaName(j) == <<j, "_", "meta", ".json">>
StatusName(j) == <<j, "_", "status", ".json">>
LogName == <<"log", ".txt">>
ResultName(j) == <<j, "_", "results", ".pdb">>
\* further names an external tool may leave in its output directory
Log2Name(j) == <<j, "_", "log", ".txt">>
FailedName(j) == <<j, "_", "FAILED", ".log">>
StderrName == <<"std", "error", ".txt">>

\* lines of a tool log; the blank line stands for any whitespace-only line
SleepLine == "Sleeping for 60s"
WorkLine == "Running model_1"
LogLineSet == {SleepLine, WorkLine, ""}

\* String.prototype.endsWith, on token sequences
endsWith(name, suffix) ==
    /\ Len(name) >= Len(suffix)
    /\ SubSeq(name, Len(name) - Len(suffix) + 1, Len(name)) = suffix

\* String.prototype.toLowerCase on one token (the i flag of /failed/i)
toLowerCase(tok) == IF tok \in {"FAILED", "Failed"} THEN "failed" ELSE tok

\* /failed/i.test(name)
testFailed(name) == \E i \in 1..Len(name) : toLowerCase(name[i]) = "failed"

\* line.includes('Sleeping for')
includesSleepingFor(line) == line = SleepLine

RECURSIVE trimEnd(_)
\* the trailing part of String.prototype.trim on a text given as its lines
trimEnd(lines) ==
    IF lines = <<>> THEN <<>>
    ELSE IF lines[Len(lines)] = "" THEN trimEnd(SubSeq(lines, 1, Len(lines) - 1))
    ELSE lines

RECURSIVE trimStart(_)
trimStart(lines) ==
    IF lines = <<>> THEN <<>>
    ELSE IF lines[1] = "" THEN trimStart(Tail(lines))
    ELSE lines

\* text.trim().split("\n"): the empty text splits into one empty line
trimSplit(lines) ==
    LET t == trimEnd(trimStart(lines))
    IN IF t = <<>> THEN <<"">> ELSE t

\* Array.prototype.at(-1)
atLast(seq) == seq[Len(seq)]

----------------------------------------------------------------------------
(* The file system *)

NoFiles == [n \in {} |-> 0]

\* kind: "none" (no entry), "dir", or "file" (a plain file of that name);
\* mode: "ok", "nolist" (listing the directory is denied) or "noread"
\* (its files cannot be opened)
NoEnt == [kind |-> "none", birthtime |-> 0, mode |-> "ok", files |-> NoFiles]

NewDir(t) == [kind |-> "dir", birthtime |-> t, mode |-> "ok", files |-> NoFiles]

File(t, lines) == [mtime |-> t, lines |-> lines]

EmptyFs == [t \in Tools |-> [j \in DirIds |-> NoEnt]]

\* fs.existsSync
existsSync(F, t, j) == F[t][j].kind # "none"

isDirectory(F, t, j) == F[t][j].kind = "dir"

\* fs.mkdirSync(dir, {recursive: true}) / fs.promises.mkdir: keeps an
\* existing directory as it is
mkdirRecursive(F, t, j, time) ==
    IF F[t][j].kind = "none" THEN [F EXCEPT ![t][j] = NewDir(time)] ELSE F

\* fs.writeFileSync / fs.promises.writeFile into an existing directory
writeFile(F, t, j, name, time, lines) ==
    [F EXCEPT ![t][j].files =
        [n \in (DOMAIN F[t][j].files) \cup {name} |->
            IF n = name THEN File(time, lines) ELSE F[t][j].files[n]]]

\* rm -rf
rmrf(F, t, j) == [F EXCEPT ![t][j] = NoEnt]

\* every name the directory of job j may hold
AllNames(j) ==
    <<DoneName(j), ErrorName(j), LogName, Log2Name(j), MetaName(j),
      StatusName(j), ResultName(j), FailedName(j), StderrName>>

Reverse(seq) == [i \in 1..Len(seq) |-> seq[Len(seq) + 1 - i]]

\* The order in which readdir returns names is the file system's own: it
\* may be either direction, and it is the same on every listing.
DirOrders == {"asc", "desc"}

readdirSyncUnstable(F, t, j, ord) ==
    LET present(n) == n \in DOMAIN F[t][j].files
    IN SelectSeq(IF (ord = "asc") = (resp.op = "none")
                 THEN AllNames(j) ELSE Reverse(AllNames(j)),
                 present)

\* fs.readdirSync(dir) of a listable directory
readdirSync(F, t, j, ord) ==
    LET present(n) == n \in DOMAIN F[t][j].files
    IN SelectSeq(IF ord = "asc" THEN AllNames(j) ELSE Reverse(AllNames(j)),
                 present)

----------------------------------------------------------------------------
(* JobManager: status resolution and directory scan *)

\* what a JavaScript call does: return a value or throw
Return(v) == [thrown |-> FALSE, value |-> v]
Throw(e) == [thrown |-> TRUE, value |-> e]

\* the last line of a log file as getJobStatus reads it
lastLogLine(file) == atLast(trimSplit(file.lines))

\* the value getJobStatus returns from its catch block
catchStatus == "failed"

defaultStatusQueued == "queued"
\* the value getJobStatus returns for a directory without marker or sentinel
defaultStatus == "running"

\* the lines of the marker the 'close' listener of ExecutionManager
\* writes: doneContent for exit code 0, errorContent otherwise
markerContent(code) ==
    IF code = 0 THEN <<"Job completed at", "Status: completed">>
    ELSE <<"Job failed at", "Status: failed">>

getJobStatusReadingMarker(F, ord, toolType, jobId) ==
    IF toolType \notin Tools \/ ~existsSync(F, toolType, jobId)
    THEN Return("not_found")
    ELSE LET e == F[toolType][jobId]
             torn(n) == /\ n \in {DoneName(jobId), ErrorName(jobId)}
                        /\ e.files[n].lines \notin {markerContent(0),
                                                     markerContent(1)}
         IN IF e.kind = "dir" /\ \E n \in DOMAIN e.files : torn(n)
            THEN Return("unknown")
            ELSE IF e.kind = "dir" /\ DoneName(jobId) \in DOMAIN e.files
            THEN Return("completed")
            ELSE Return("running")

getJobStatusMissingMutant(F, ord, toolType, jobId) == Return("running")
\* getJobStatus when existsSync(jobOutputDir) is false
getJobStatusMissing(F, ord, toolType, jobId) == Return("not_found")

\* JobManager.getJobStatus(toolType, jobId); ord is the order the
\* directory listing comes back in
getJobStatus(F, ord, toolType, jobId) ==
    IF toolType \notin Tools \/ ~existsSync(F, toolType, jobId)
    THEN getJobStatusMissing(F, ord, toolType, jobId)
    ELSE LET e == F[toolType][jobId] IN
    \* readdirSync throws ENOTDIR or EACCES: the catch block answers
    IF e.kind = "file" \/ e.mode = "nolist" THEN Return(catchStatus)
    ELSE LET files == readdirSync(F, toolType, jobId, ord)
             isDone(f) == endsWith(f, <<".done", ".txt">>)
             isError(f) == endsWith(f, <<"error", ".txt">>)
             isLog(f) == endsWith(f, <<"log", ".txt">>)
             doneFiles == SelectSeq(files, isDone)
             errorFiles == SelectSeq(files, isError)
             logFiles == SelectSeq(files, isLog)
         IN IF Len(logFiles) > 0 /\ e.mode = "noread"
            THEN Return(catchStatus)        \* readFileSync throws EACCES
            ELSE IF /\ Len(logFiles) > 0
                    /\ includesSleepingFor(lastLogLine(e.files[logFiles[1]]))
            THEN Return("queued")
            ELSE IF Len(errorFiles) > 0 THEN Return("failed")
            ELSE IF Len(doneFiles) > 0 THEN Return("completed")
            ELSE Return(defaultStatus)

\* JobManager.getJobFiles(jobPath): the regular files of the directory;
\* any failure gives the empty list
getJobFiles(F, tool, j) ==
    IF F[tool][j].kind # "dir" \/ F[tool][j].mode = "nolist" THEN {}
    ELSE DOMAIN F[tool][j].files

\* the job ids of the directories under <tool>/output, in listing order
jobDirs(F, tool, ord) ==
    LET isJobDir(j) == j \in DirIds /\ isDirectory(F, tool, j)
    IN SelectSeq(IF ord = "asc" THEN OutputNames ELSE Reverse(OutputNames),
                 isJobDir)

\* JSON text, one token per line: an object with a jobName, an object
\* without one, the literal null; any other text does not parse
MetaObject(name) == <<"{", "jobName", name, "}">>
EmptyObject == <<"{", "}">>
JsonNull == <<"null">>

\* JSON.parse and the read of .jobName: thrown is a SyntaxError of the
\* parse or the TypeError of reading a property of null
JSONparseJobName(lines) ==
    IF lines = JsonNull THEN Throw("TypeError")
    ELSE IF Len(lines) = 4 /\ lines[1] = "{" /\ lines[2] = "jobName"
               /\ lines[4] = "}"
         THEN Return(<<lines[3]>>)
    ELSE IF lines = EmptyObject THEN Return(<<>>)       \* undefined
    ELSE Throw("SyntaxError")

\* jobId.substring(0, 8): a uuid is cut to its head, a shorter name is
\* kept whole
substring8(j) ==
    LET at == {i \in DOMAIN UuidPool : UuidPool[i] = j}
    IN IF at = {} THEN j ELSE UuidHead[CHOOSE i \in at : TRUE]

\* the metadata block of getAllJobs: the job name read from
\* <id>_meta.json as <<name>>, or <<>> (null) when the file is missing,
\* unreadable or unparsable or names nothing; its catch ignores every error
jobNameFromMeta(F, tool, j) ==
    LET d == F[tool][j]
    IN IF MetaName(j) \notin DOMAIN d.files THEN <<>>
       ELSE IF d.mode = "noread" THEN <<>>
       ELSE LET meta == JSONparseJobName(d.files[MetaName(j)].lines)
            IN IF meta.thrown \/ meta.value \in {<<>>, <<"">>}
               THEN <<>>
               ELSE meta.value

jobNameMetaOnly(F, tool, j) == jobNameFromMeta(F, tool, j)

\* jobNameFromMeta || `${tool}_${jobId.substring(0, 8)}`
jobName(F, tool, j) ==
    IF jobNameFromMeta(F, tool, j) = <<>>
    THEN <<tool, "_", substring8(j)>>
    ELSE jobNameFromMeta(F, tool, j)

jobObjectFromMemory(F, ord, tool, j) ==
    LET status == IF j \in JobIds /\ jobs[j].status # ""
                  THEN jobs[j].status
                  ELSE getJobStatus(F, ord, tool, j).value
    IN [id |-> j, tool |-> tool, status |-> status,
        jobName |-> jobName(F, tool, j),
        createdAt |-> F[tool][j].birthtime,
        progress |-> IF status = "completed" THEN 100
                     ELSE IF status = "running" THEN 50 ELSE 0,
        files |-> getJobFiles(F, tool, j)]

\* the job object getAllJobs builds for one directory
jobObject(F, ord, tool, j) ==
    LET status == getJobStatus(F, ord, tool, j).value
    IN [id |-> j, tool |-> tool, status |-> status,
        jobName |-> jobName(F, tool, j),
        createdAt |-> F[tool][j].birthtime,
        progress |-> IF status = "completed" THEN 100
                     ELSE IF status = "running" THEN 50 ELSE 0,
        files |-> getJobFiles(F, tool, j)]

RECURSIVE scanJobDirs(_, _, _, _, _)
\* the inner loop of getAllJobs over the job directories of one tool
scanJobDirs(F, ord, tool, ids, statusFilter) ==
    IF ids = <<>> THEN <<>>
    ELSE LET job == jobObject(F, ord, tool, Head(ids))
             rest == scanJobDirs(F, ord, tool, Tail(ids), statusFilter)
         IN IF statusFilter # "" /\ job.status # statusFilter THEN rest
            ELSE <<job>> \o rest

RECURSIVE scanTools(_, _, _, _)
\* the outer loop of getAllJobs over toolsToScan
scanTools(F, ord, tools, statusFilter) ==
    IF tools = <<>> THEN <<>>
    ELSE (IF Head(tools) \notin Tools THEN <<>>     \* no output directory
          ELSE scanJobDirs(F, ord, Head(tools),
                           jobDirs(F, Head(tools), ord), statusFilter))
         \o scanTools(F, ord, Tail(tools), statusFilter)

RECURSIVE insertByCreatedAt(_, _)
insertByCreatedAt(job, sorted) ==
    IF sorted = <<>> THEN <<job>>
    ELSE IF Head(sorted).createdAt >= job.createdAt
         THEN <<Head(sorted)>> \o insertByCreatedAt(job, Tail(sorted))
         ELSE <<job>> \o sorted

unsorted(js) == js

RECURSIVE sortNewestFirst(_)
\* jobs.sort((a, b) => new Date(b.createdAt) - new Date(a.createdAt)):
\* a stable sort, newest first
sortNewestFirst(js) ==
    IF js = <<>> THEN <<>>
    ELSE insertByCreatedAt(js[Len(js)], sortNewestFirst(SubSeq(js, 1, Len(js) - 1)))

NoFilters == [tool |-> "", status |-> "", limit |-> 0]

\* JobManager.getAllJobs(filters); an absent filter is "" (or 0)
getAllJobs(F, ord, filters) ==
    LET toolsToScan == IF filters.tool # "" THEN <<filters.tool>> ELSE ToolDirs
        sorted == sortNewestFirst(scanTools(F, ord, toolsToScan, filters.status))
    IN IF filters.limit # 0
       THEN SubSeq(sorted, 1, IF filters.limit < Len(sorted)
                              THEN filters.limit ELSE Len(sorted))
       ELSE sorted

\* the counters getJobStats keeps for a list of jobs
countJobs(js) ==
    LET n(st) == Cardinality({i \in 1..Len(js) : js[i].status = st})
    IN [total |-> Len(js), running |-> n("running"),
        completed |-> n("completed"), failed |-> n("failed"),
        queued |-> n("queued")]

\* the stats object getJobStats builds from the list of jobs
statsOf(allJobs) ==
    LET ofTool(t) == LET isOf(job) == job.tool = t IN SelectSeq(allJobs, isOf)
    IN [all |-> countJobs(allJobs),
        byTool |-> [t \in {allJobs[i].tool : i \in 1..Len(allJobs)} |->
                       countJobs(ofTool(t))]]

\* JobManager.getJobStats(filters): the counters over all jobs, and the
\* same counters for each tool that has a job
getJobStats(F, ord, filters) == statsOf(getAllJobs(F, ord, filters))

\* jobs.find(j => j.id === jobId): the matching jobs, first one first
findJob(js, jobId) ==
    LET hasId(job) == job.id = jobId IN SelectSeq(js, hasId)

updateJobStatusUnscoped(F, jobId, status, time) ==
    IF F["colabfold"][UuidPool[1]].kind = "dir"
    THEN writeFile(F, "colabfold", UuidPool[1], StatusName(jobId), time,
                   <<status>>)
    ELSE F

updateJobStatusAsMarker(F, jobId, status, time) ==
    LET found == {i \in 1..Len(PossibleJobDirs) :
                     existsSync(F, PossibleJobDirs[i], jobId)}
    IN IF found = {} THEN F
       ELSE LET i == CHOOSE x \in found : \A y \in found : x <= y
                t == PossibleJobDirs[i]
            IN IF F[t][jobId].kind = "dir" /\ F[t][jobId].mode = "ok"
               THEN writeFile(F, t, jobId,
                              IF status = "failed" THEN ErrorName(jobId)
                              ELSE StatusName(jobId),
                              time, <<status>>)
               ELSE F

updateJobStatusIntoMeta(F, jobId, status, time) ==
    LET found == {i \in 1..Len(PossibleJobDirs) :
                     existsSync(F, PossibleJobDirs[i], jobId)}
    IN IF found = {} THEN F
       ELSE LET i == CHOOSE x \in found : \A y \in found : x <= y
                t == PossibleJobDirs[i]
            IN IF F[t][jobId].kind = "dir" /\ F[t][jobId].mode = "ok"
               THEN writeFile(F, t, jobId, MetaName(jobId), time, <<status>>)
               ELSE F

\* JobManager.updateJobStatus: writes <id>_status.json into the first
\* directory of possibleJobDirs that exists; every failure is swallowed
updateJobStatus(F, jobId, status, time) ==
    LET found == {i \in 1..Len(PossibleJobDirs) :
                     existsSync(F, PossibleJobDirs[i], jobId)}
    IN IF found = {} THEN F
       ELSE LET i == CHOOSE x \in found : \A y \in found : x <= y
                t == PossibleJobDirs[i]
            IN IF F[t][jobId].kind = "dir" /\ F[t][jobId].mode = "ok"
               THEN writeFile(F, t, jobId, StatusName(jobId), time, <<status>>)
               ELSE F

----------------------------------------------------------------------------
(* Queries *)

NoResp == [op |-> "none", tool |-> "", id |-> "", code |-> 0, result |-> <<>>]

\* a direct call of JobManager.getJobStatus(toolType, jobId)
ResolveStatus(t, j, ord) ==
    /\ serverUp
    /\ resp' = [op |-> "getJobStatus", tool |-> t, id |-> j,
                code |-> 0, result |-> getJobStatus(fs, ord, t, j)]
    /\ UNCHANGED <<dirOrder, fs, now, faults, issued, jobs, procs, serverUp>>

ResolveAllMakingDirs(t, st, ord) ==
    /\ serverUp
    /\ resp' = [op |-> "getAllJobs", tool |-> t, id |-> st,
                code |-> 0,
                result |-> getAllJobs(fs, ord,
                               [tool |-> t, status |-> st, limit |-> 0])]
    /\ fs' = mkdirRecursive(fs, "colabfold", UuidPool[1], now)
    /\ UNCHANGED <<dirOrder, now, faults, issued, jobs, procs, serverUp>>

\* a direct call of JobManager.getAllJobs({tool, status})
ResolveAll(t, st, ord) ==
    /\ serverUp
    /\ resp' = [op |-> "getAllJobs", tool |-> t, id |-> st,
                code |-> 0,
                result |-> getAllJobs(fs, ord,
                               [tool |-> t, status |-> st, limit |-> 0])]
    /\ UNCHANGED <<dirOrder, fs, now, faults, issued, jobs, procs, serverUp>>

----------------------------------------------------------------------------
(* The resolver on an arbitrary job directory *)

RECURSIVE SeqsUpTo(_, _)
\* the sequences over S of length at most n
SeqsUpTo(S, n) ==
    IF n = 0 THEN {<<>>}
    ELSE LET shorter == SeqsUpTo(S, n - 1)
         IN shorter \cup {Append(q, x) : q \in shorter, x \in S}

LogContents == SeqsUpTo(LogLineSet, MaxLogLines)

\* the names some process may have left in the directory of job j
ResolverNames(j) ==
    {DoneName(j), ErrorName(j), FailedName(j), StderrName, LogName, Log2Name(j)}

NoJobs ==
    [j \in JobIds |->
        [tool |-> "", status |-> "", path |-> "", emPending |-> FALSE]]
NoProc == [st |-> "none", tool |-> "", code |-> 0, outdir |-> FALSE,
           watched |-> FALSE]
Sups == {"app", "em"}
NoProcs == [j \in JobIds |-> [s \in Sups |-> NoProc]]

\* one entry colabfold/output/u1 of any kind and content; no other entry
InitResolve ==
    /\ \E kind \in {"none", "file", "dir"}, mode \in {"ok", "nolist", "noread"},
          S \in SUBSET ResolverNames(UuidPool[1]),
          c1 \in LogContents, c2 \in LogContents :
          /\ kind # "dir" => (S = {} /\ mode = "ok")
          /\ LogName \notin S => c1 = <<>>
          /\ Log2Name(UuidPool[1]) \notin S => c2 = <<>>
          /\ fs = [EmptyFs EXCEPT !["colabfold"][UuidPool[1]] =
                    [kind |-> kind, birthtime |-> 0, mode |-> mode,
                     files |-> [n \in S |->
                        File(0, IF n = LogName THEN c1
                                ELSE IF n = Log2Name(UuidPool[1]) THEN c2
                                ELSE <<>>)]]]
    /\ dirOrder \in DirOrders
    /\ now = 0
    /\ faults = 0
    /\ issued = 0
    /\ jobs = NoJobs
    /\ procs = NoProcs
    /\ serverUp = TRUE
    /\ resp = NoResp

----------------------------------------------------------------------------
(* Submission *)

\* exit code of a child that could not be spawned (the negated errno)
SpawnErrorCode == -2

\* whether the argument vector names output/<id> as the output directory:
\* the switch of app.js executeToolCommand
appPassesOutputDir(tool) == tool \in {"colabfold", "foldseek", "colabdock"}

\* the switch of ExecutionManager.executeToolCommand
emPassesOutputDir(tool) == tool \in {"proteinmpnn", "colabfold"}

\* the name of the file a request uploads
OriginalName == "upload.fasta"

\* jobName || fileInfo.originalName || 'Unnamed Job' for a request that
\* carries no job name: only an upload has an originalName
newJobName(path) == IF path = "upload" THEN OriginalName ELSE "Unnamed Job"

\* JobManager.createJob as defined in jobManager.js: the directory and the
\* metadata file, or nothing when the disk refuses (the catch block warns)
createJobFiles(F, tool, j, path, time, diskOk) ==
    IF diskOk
    THEN writeFile(mkdirRecursive(F, tool, j, time), tool, j, MetaName(j),
                   time, MetaObject(newJobName(path)))
    ELSE F

\* executeToolCommand of app.js up to its return: the status snapshot and
\* the spawn; a failed spawn emits 'error' and then 'close', and both
\* listeners write the snapshot again
appExecuteFiles(F, j, time, spawnOk) ==
    LET F1 == updateJobStatus(F, j, "running", time)
    IN IF spawnOk THEN F1 ELSE updateJobStatus(F1, j, "failed", time)

appProcess(tool, spawnOk) ==
    [st |-> IF spawnOk THEN "running" ELSE "closed", tool |-> tool,
     code |-> IF spawnOk THEN 0 ELSE SpawnErrorCode,
     outdir |-> appPassesOutputDir(tool), watched |-> spawnOk]

\* the job object JobManager.createJob builds in memory and returns
memoryJob(tool, path) ==
    [tool |-> tool, status |-> "queued", path |-> path,
     emPending |-> path = "upload"]

patchedCreateJobAwaitsSpawn(tool, path, diskOk, spawnOk) ==
    LET j == UuidPool[issued + 1]
    IN /\ issued' = issued + 1
       /\ fs' = appExecuteFiles(createJobFiles(fs, tool, j, path, now, diskOk),
                                j, now, spawnOk)
       /\ jobs' = [jobs EXCEPT ![j] = memoryJob(tool, path)]
       /\ procs' = [procs EXCEPT ![j]["app"] = appProcess(tool, spawnOk)]
       /\ resp' = [op |-> path, tool |-> tool, id |-> j,
                   code |-> IF spawnOk THEN 200 ELSE 500,
                   result |-> <<[id |-> j, tool |-> tool,
                                 status |-> memoryJob(tool, path).status]>>]

\* the patched JobManager.createJob of app.js, called by both endpoints
patchedCreateJob(tool, path, diskOk, spawnOk) ==
    LET j == UuidPool[issued + 1]
    IN /\ issued' = issued + 1
       /\ fs' = appExecuteFiles(createJobFiles(fs, tool, j, path, now, diskOk),
                                j, now, spawnOk)
       /\ jobs' = [jobs EXCEPT ![j] = memoryJob(tool, path)]
       /\ procs' = [procs EXCEPT ![j]["app"] = appProcess(tool, spawnOk)]
       /\ resp' = [op |-> path, tool |-> tool, id |-> j, code |-> 200,
                   result |-> <<[id |-> j, tool |-> tool,
                                 status |-> memoryJob(tool, path).status]>>]

badRequestAccepted(op, tool) ==
    [op |-> op, tool |-> tool, id |-> "", code |-> 200,
     result |-> <<>>]

\* the answer to a request that names no configured tool
badRequest(op, tool) ==
    [op |-> op, tool |-> tool, id |-> "", code |-> 400,
     result |-> <<>>]

\* the failures a step meets count against MaxFaults
failed(ok) == IF ok THEN 0 ELSE 1

\* POST /jobs/execute: JobController.createJob
HttpExecute(tool, diskOk, spawnOk) ==
    /\ serverUp
    /\ IF tool \in ConfigTools
       THEN /\ issued < MaxJobs
            /\ faults + failed(diskOk) + failed(spawnOk) <= MaxFaults
            /\ faults' = faults + failed(diskOk) + failed(spawnOk)
            /\ patchedCreateJob(tool, "execute", diskOk, spawnOk)
       ELSE /\ diskOk /\ spawnOk
            /\ resp' = badRequest("execute", tool)
            /\ UNCHANGED <<fs, faults, issued, jobs, procs>>
    /\ UNCHANGED <<dirOrder, now, serverUp>>

\* POST /run-tool: UploadController.uploadAndRun, up to its response
HttpRunTool(tool, diskOk, spawnOk) ==
    /\ serverUp
    /\ IF tool \in ConfigTools
       THEN /\ issued < MaxJobs
            /\ faults + failed(diskOk) + failed(spawnOk) <= MaxFaults
            /\ faults' = faults + failed(diskOk) + failed(spawnOk)
            /\ patchedCreateJob(tool, "upload", diskOk, spawnOk)
       ELSE /\ diskOk /\ spawnOk
            /\ resp' = badRequest("upload", tool)
            /\ UNCHANGED <<fs, faults, issued, jobs, procs>>
    /\ UNCHANGED <<dirOrder, now, serverUp>>

\* the node process ends: no listener of it will run again
unwatch(P) ==
    [j \in JobIds |-> [s \in Sups |->
        IF P[j][s].st = "marker" THEN [P[j][s] EXCEPT !.st = "closed",
                                                      !.watched = FALSE]
        ELSE [P[j][s] EXCEPT !.watched = FALSE]]]

\* the setImmediate callback of uploadAndRun:
\* ExecutionManager.executeToolCommand(job) up to its return.  No 'error'
\* listener is attached to the child, so a failed spawn is an uncaught
\* exception.
EmStart(j, spawnOk) ==
    /\ serverUp
    /\ jobs[j].emPending
    /\ jobs' = [jobs EXCEPT ![j].emPending = FALSE]
    /\ fs' = updateJobStatus(fs, j, "running", now)
    /\ LET tool == jobs[j].tool
           P == [procs EXCEPT ![j]["em"] =
                    [st |-> IF spawnOk THEN "running" ELSE "closed",
                     tool |-> tool,
                     code |-> IF spawnOk THEN 0 ELSE SpawnErrorCode,
                     outdir |-> emPassesOutputDir(tool), watched |-> spawnOk]]
       IN procs' = IF spawnOk THEN P ELSE unwatch(P)
    /\ serverUp' = spawnOk
    /\ faults + failed(spawnOk) <= MaxFaults
    /\ faults' = faults + failed(spawnOk)
    /\ resp' = NoResp
    /\ UNCHANGED <<dirOrder, now, issued>>

\* the server is started again (pm2): every in-memory job object is gone
Restart ==
    /\ ~serverUp
    /\ serverUp' = TRUE
    /\ jobs' = NoJobs
    /\ resp' = NoResp
    /\ UNCHANGED <<dirOrder, fs, now, faults, issued, procs>>

----------------------------------------------------------------------------
(* The external process and its supervisor *)

\* the tool's own mkdir of its output directory
toolDir(F, tool, j, time) == mkdirRecursive(F, tool, j, time)

\* the lines a running tool writes
ToolLines == {SleepLine, WorkLine}

\* a running tool appends a line to log.txt in its output directory
ToolLog(j, sup, line) ==
    /\ procs[j][sup].st = "running"
    /\ procs[j][sup].outdir
    /\ LET tool == procs[j][sup].tool
           F == toolDir(fs, tool, j, now)
           old == IF LogName \in DOMAIN F[tool][j].files
                  THEN F[tool][j].files[LogName].lines ELSE <<>>
       IN /\ Len(old) < MaxToolLines
          /\ fs' = writeFile(F, tool, j, LogName, now, Append(old, line))
    /\ resp' = NoResp
    /\ UNCHANGED <<dirOrder, now, faults, issued, jobs, procs, serverUp>>

\* a running tool writes a result file into its output directory
ToolResult(j, sup) ==
    /\ procs[j][sup].st = "running"
    /\ procs[j][sup].outdir
    /\ LET tool == procs[j][sup].tool
       IN fs' = writeFile(toolDir(fs, tool, j, now), tool, j, ResultName(j),
                          now, <<>>)
    /\ resp' = NoResp
    /\ UNCHANGED <<dirOrder, now, faults, issued, jobs, procs, serverUp>>

\* the 'close' listener of app.js: only the status snapshot is written
appOnClose(F, j, code, time) ==
    IF code = 0 THEN updateJobStatus(F, j, "completed", time)
    ELSE updateJobStatus(F, j, "failed", time)

\* the 'close' listener of ExecutionManager up to the end of its
\* await fs.mkdir(outputDir, {recursive: true})
emOnClose(F, tool, j, code, time, diskOk) ==
    LET F1 == IF code = 0 THEN updateJobStatus(F, j, "completed", time)
              ELSE updateJobStatus(F, j, "failed", time)
    IN IF diskOk THEN mkdirRecursive(F1, tool, j, time) ELSE F1

\* the child exits with `code`; its 'close' listener runs if the server
\* that spawned it is still there
ProcClose(j, sup, code, diskOk) ==
    /\ procs[j][sup].st = "running"
    /\ LET p == procs[j][sup]
           heard == p.watched /\ serverUp
       IN /\ fs' = IF ~heard THEN fs
                   ELSE IF sup = "app" THEN appOnClose(fs, j, code, now)
                   ELSE emOnClose(fs, p.tool, j, code, now, diskOk)
          /\ procs' = [procs EXCEPT ![j][sup].code = code,
                          ![j][sup].st =
                              IF heard /\ sup = "em" /\ diskOk THEN "marker"
                              ELSE "closed"]
          /\ (~diskOk) => (heard /\ sup = "em" /\ faults < MaxFaults)
          /\ faults' = faults + failed(diskOk)
    /\ resp' = NoResp
    /\ UNCHANGED <<dirOrder, now, issued, jobs, serverUp>>

\* the marker file the 'close' listener of ExecutionManager writes
emMarkerName(j, code) == IF code = 0 THEN DoneName(j) ELSE ErrorName(j)

\* the rest of the 'close' listener of ExecutionManager:
\* await fs.writeFile(marker); a failure is logged and dropped
EmWriteMarker(j) ==
    /\ serverUp
    /\ procs[j]["em"].st = "marker"
    /\ LET p == procs[j]["em"]
       IN fs' = IF fs[p.tool][j].kind = "dir" /\ fs[p.tool][j].mode = "ok"
                THEN writeFile(fs, p.tool, j, emMarkerName(j, p.code), now,
                               <<>>)
                ELSE fs
    /\ procs' = [procs EXCEPT ![j]["em"].st = "closed"]
    /\ resp' = NoResp
    /\ UNCHANGED <<dirOrder, now, faults, issued, jobs, serverUp>>

----------------------------------------------------------------------------
(* HTTP queries and deletion *)

\* GET /jobs/:jobId: JobController.getJobStatus
HttpGetJobStatus(j, ord) ==
    /\ serverUp
    /\ LET found == findJob(getAllJobs(fs, ord, NoFilters), j)
       IN resp' = [op |-> "status", tool |-> "", id |-> j,
                   code |-> IF found = <<>> THEN 404 ELSE 200,
                   result |-> IF found = <<>> THEN <<>> ELSE <<found[1]>>]
    /\ UNCHANGED <<dirOrder, fs, now, faults, issued, jobs, procs, serverUp>>

\* the limit JobController.getAllJobs passes when the query names none
DefaultLimit == 50

\* GET /jobs?tool=&status=: JobController.getAllJobs
HttpGetAllJobs(tool, status, ord) ==
    /\ serverUp
    /\ LET notSeqs(job) == job.id # SeqsId
           jobsList == getAllJobs(fs, ord, [tool |-> tool, status |-> status,
                                            limit |-> DefaultLimit])
       IN resp' = [op |-> "list", tool |-> tool, id |-> status,
                   code |-> 200, result |-> SelectSeq(jobsList, notSeqs),
                   stats |-> getJobStats(fs, ord, NoFilters)]
    /\ UNCHANGED <<dirOrder, fs, now, faults, issued, jobs, procs, serverUp>>

\* the first directory of possibleJobDirs that exists, as a set of indices
deleteJobDir(F, j) ==
    LET found == {i \in 1..Len(PossibleJobDirs) :
                     existsSync(F, PossibleJobDirs[i], j)}
    IN {i \in found : \A k \in found : i <= k}

\* DELETE /jobs/:jobId: JobController.deleteJob with its rm -rf
HttpDeleteJob(j) ==
    /\ serverUp
    /\ LET d == deleteJobDir(fs, j)
       IN IF d = {}
          THEN /\ resp' = [op |-> "delete", tool |-> "", id |-> j,
                           code |-> 404, result |-> <<>>]
               /\ fs' = fs
          ELSE LET t == PossibleJobDirs[CHOOSE i \in d : TRUE]
               IN /\ fs' = rmrf(fs, t, j)
                  /\ resp' = [op |-> "delete", tool |-> t, id |-> j,
                              code |-> 200, result |-> <<>>]
    /\ UNCHANGED <<dirOrder, now, faults, issued, jobs, procs, serverUp>>

\* time passes
Tick ==
    /\ now < MaxTime
    /\ now' = now + 1
    /\ resp' = NoResp
    /\ UNCHANGED <<dirOrder, fs, faults, issued, jobs, procs, serverUp>>

----------------------------------------------------------------------------
(* The server *)

Init ==
    /\ fs = EmptyFs
    /\ dirOrder \in DirOrders
    /\ now = 0
    /\ faults = 0
    /\ issued = 0
    /\ jobs = NoJobs
    /\ procs = NoProcs
    /\ serverUp = TRUE
    /\ resp = NoResp

\* the tool types a request may name: the configured ones and one other
RequestTools == ConfigTools \cup {"blast"}

Next ==
    \/ \E t \in RequestTools, d \in BOOLEAN, s \in BOOLEAN : HttpExecute(t, d, s)
    \/ \E t \in RequestTools, d \in BOOLEAN, s \in BOOLEAN : HttpRunTool(t, d, s)
    \/ \E j \in JobIds, s \in BOOLEAN : EmStart(j, s)
    \/ Restart
    \/ \E j \in JobIds, sup \in Sups, l \in ToolLines : ToolLog(j, sup, l)
    \/ \E j \in JobIds, sup \in Sups : ToolResult(j, sup)
    \/ \E j \in JobIds, sup \in Sups, c \in {0, 1}, d \in BOOLEAN :
          ProcClose(j, sup, c, d)
    \/ \E j \in JobIds : EmWriteMarker(j)
    \/ \E j \in Ids : HttpGetJobStatus(j, dirOrder)
    \/ \E t \in {"", "colabfold"} : HttpGetAllJobs(t, "", dirOrder)
    \/ \E j \in Ids : HttpDeleteJob(j)
    \/ Tick

Spec == Init /\ [][Next]_vars

----------------------------------------------------------------------------
(* The resolver and the queries on an arbitrary job directory *)

\* the tool types the resolver is asked about: the one that holds the
\* entry and one that does not
ResolveTools == {"colabfold", "foldseek"}

\* the query was not made yet, or it is made again
asked(op, t, j) ==
    resp = NoResp \/ (resp.op = op /\ resp.tool = t /\ resp.id = j)

\* one query on each input, and the same query again
NextResolve ==
    \/ \E t \in ResolveTools, j \in Ids :
          asked("getJobStatus", t, j) /\ ResolveStatus(t, j, dirOrder)
    \/ asked("getAllJobs", "", "") /\ ResolveAll("", "", dirOrder)
    \/ \E j \in Ids : asked("status", "", j) /\ HttpGetJobStatus(j, dirOrder)
    \/ asked("list", "colabfold", "")
          /\ HttpGetAllJobs("colabfold", "", dirOrder)

SpecResolve == InitResolve /\ [][NextResolve]_vars

----------------------------------------------------------------------------
(* Jobs submitted side by side for one tool *)

\* the tool both jobs are for
PairTool == "colabfold"

\* POST /jobs/execute or POST /run-tool for PairTool, the disk and spawn
\* working
PairSubmit(path) ==
    /\ serverUp
    /\ issued < MaxPairJobs
    /\ patchedCreateJob(PairTool, path, TRUE, TRUE)
    /\ UNCHANGED <<dirOrder, now, faults, serverUp>>

\* the jobs run interleaved in any way, each to its end
NextPair ==
    \/ \E path \in {"execute", "upload"} : PairSubmit(path)
    \/ \E j \in JobIds : EmStart(j, TRUE)
    \/ \E j \in JobIds, sup \in Sups, l \in ToolLines : ToolLog(j, sup, l)
    \/ \E j \in JobIds, sup \in Sups : ToolResult(j, sup)
    \/ \E j \in JobIds, sup \in Sups, c \in {0, 1} : ProcClose(j, sup, c, TRUE)
    \/ \E j \in JobIds : EmWriteMarker(j)
    \/ HttpGetAllJobs(PairTool, "", dirOrder)

SpecPair == Init /\ [][NextPair]_vars

----------------------------------------------------------------------------
(* Properties of status derivation                                         *)
(*                                                                         *)
(* resp always answers for the current fs: a query leaves fs alone, and    *)
(* every step that changes fs replaces resp.                               *)

\* an answer of JobManager.getJobStatus for a directory it could read
AnsweredDir ==
    /\ resp.op = "getJobStatus"
    /\ resp.tool \in Tools
    /\ fs[resp.tool][resp.id].kind = "dir"
    /\ fs[resp.tool][resp.id].mode = "ok"

\* the file names of the directory the answer is about
AnsweredNames == DOMAIN fs[resp.tool][resp.id].files

\* an error marker: a name ending with _error.txt or matching /failed/i
isErrorMarker(name) ==
    endsWith(name, <<"_", "error", ".txt">>) \/ testFailed(name)

\* a done marker: a name ending with .done.txt
isDoneMarker(name) == endsWith(name, <<".done", ".txt">>)

\* the last non-empty line of a log, "" when it has none
lastNonEmptyLine(lines) ==
    IF trimEnd(lines) = <<>> THEN "" ELSE atLast(trimEnd(lines))

\* a log file of the directory whose last non-empty line has the sentinel
isQueuedLog(e, name) ==
    /\ endsWith(name, <<"log", ".txt">>)
    /\ includesSleepingFor(lastNonEmptyLine(e.files[name].lines))

\* C1: a job directory holding at least one error marker (a name ending
\* with _error.txt or containing "failed" in any case) resolves to
\* "failed", whatever else the directory holds.
C1_FailureDominates ==
    (AnsweredDir /\ \E n \in AnsweredNames : isErrorMarker(n))
        => resp.result = Return("failed")

\* C2: a job directory holding a done marker and no error marker resolves
\* to "completed", also when a log in it ends with the queued sentinel.
C2_DoneMeansCompleted ==
    (/\ AnsweredDir
     /\ \E n \in AnsweredNames : isDoneMarker(n)
     /\ \A n \in AnsweredNames : ~isErrorMarker(n))
        => resp.result = Return("completed")

\* C3: a job directory with neither a done marker nor an error marker
\* resolves to "queued" exactly when some log file in it has a last
\* non-empty line with the sentinel, and to "running" otherwise.
C3_QueuedIffSentinel ==
    (/\ AnsweredDir
     /\ \A n \in AnsweredNames : ~isDoneMarker(n) /\ ~isErrorMarker(n))
        => resp.result =
             Return(IF \E n \in AnsweredNames :
                          isQueuedLog(fs[resp.tool][resp.id], n)
                    THEN "queued" ELSE "running")

\* the resolution met an I/O error other than the path being absent: the
\* path is a plain file, the directory cannot be listed, or the log file
\* the resolver opens cannot be read
AnsweredIOError ==
    /\ resp.op = "getJobStatus"
    /\ resp.tool \in Tools
    /\ LET e == fs[resp.tool][resp.id]
       IN \/ e.kind = "file"
          \/ e.kind = "dir" /\ e.mode = "nolist"
          \/ /\ e.kind = "dir" /\ e.mode = "noread"
             /\ \E n \in DOMAIN e.files : endsWith(n, <<"log", ".txt">>)

\* C7: an I/O error met while resolving a status, other than the directory
\* being absent, reaches the caller as an error and never as a status value.
C7_IOErrorIsRaised == AnsweredIOError => resp.result.thrown

\* nothing at <tool>/output/<id> for any tool
NoEntry(j) == \A t \in Tools : ~existsSync(fs, t, j)

\* no directory <tool>/output/<id> for any tool
NoDirectory(j) == \A t \in Tools : ~isDirectory(fs, t, j)

\* C8: for a job id with no directory under any tool output root,
\* JobManager.getJobStatus returns "not_found", GET /jobs/:jobId answers
\* 404, and neither JobManager.getAllJobs nor GET /jobs lists the id.  (A
\* plain file at the path is the I/O error case of C7, so getJobStatus is
\* held to "not_found" only where nothing is at the path.)
C8_NoDirectoryNotFound ==
    /\ (resp.op = "getJobStatus" /\ NoEntry(resp.id))
          => resp.result = Return("not_found")
    /\ (resp.op = "status" /\ NoDirectory(resp.id)) => resp.code = 404
    /\ resp.op \in {"list", "getAllJobs"}
          => \A i \in 1..Len(resp.result) : ~NoDirectory(resp.result[i].id)

\* getJobStatus was asked about an id that has nothing under any tool
C8_Witness ==
    /\ resp.op = "getJobStatus"
    /\ resp.id = UuidPool[1]
    /\ NoEntry(resp.id)
    /\ resp.result.value = "not_found"

----------------------------------------------------------------------------
(* Properties of the job lifecycle *)

\* this step ends the 'close' listener of the process supervisor sup
\* spawned for job j: the listener of app.js is one step; the listener of
\* ExecutionManager ends with its write of the marker
closeHandled(j, sup) ==
    /\ procs'[j][sup].st = "closed"
    /\ \/ /\ sup = "app"
          /\ procs[j][sup].st = "running"
          /\ procs[j][sup].watched /\ serverUp
       \/ /\ sup = "em"
          /\ procs[j][sup].st = "marker"
          /\ serverUp'

\* this step is a spawn that failed
spawnFailed(j, sup) ==
    procs[j][sup].st = "none" /\ procs'[j][sup].st = "closed"

\* the files of the output directory of job j after the step
outputNamesAfter(j, sup) == DOMAIN fs'[procs'[j][sup].tool][j].files

\* C4: when a job's process exits with code 0, its supervisor leaves
\* <id>.done.txt in the job's output directory, whichever endpoint created
\* the job.
C4_ExitZeroWritesDone ==
    [][\A j \in JobIds, sup \in Sups :
          (closeHandled(j, sup) /\ procs'[j][sup].code = 0)
              => DoneName(j) \in outputNamesAfter(j, sup)]_vars

\* C5: when a job's process exits with a nonzero code or cannot be spawned,
\* its supervisor leaves <id>_error.txt in the job's output directory.
C5_FailureWritesError ==
    [][\A j \in JobIds, sup \in Sups :
          ((closeHandled(j, sup) \/ spawnFailed(j, sup))
              /\ procs'[j][sup].code # 0)
              => ErrorName(j) \in outputNamesAfter(j, sup)]_vars

\* job j was created, every process spawned for it has exited with code 0
\* and its listener is done, no disk or spawn failure was met, and the job
\* directory is there
exitedZero(j) ==
    /\ faults = 0
    /\ procs[j]["app"].st = "closed" /\ procs[j]["app"].code = 0
    /\ ~jobs[j].emPending
    /\ procs[j]["em"].st \in {"none", "closed"}
    /\ procs[j]["em"].st = "closed" => procs[j]["em"].code = 0
    /\ isDirectory(fs, procs[j]["app"].tool, j)

\* C6: after a job is created and its process has exited with code 0,
\* GET /jobs?tool=<its tool> lists the job with status "completed" and a
\* completedAt not before its createdAt.
C6_RoundTrip ==
    \A j \in JobIds :
        (resp.op = "list" /\ exitedZero(j) /\ resp.tool = procs[j]["app"].tool)
            => \E i \in 1..Len(resp.result) :
                  /\ resp.result[i].id = j
                  /\ resp.result[i].status = "completed"
                  /\ "completedAt" \in DOMAIN resp.result[i]
                  /\ resp.result[i].completedAt >= resp.result[i].createdAt

\* C9: while an error marker is in a job's directory, GET /jobs/:jobId
\* answers "failed", whatever else was written to the directory.
C9_FailedStaysFailed ==
    (/\ resp.op = "status" /\ resp.code = 200
     /\ \E n \in DOMAIN fs[resp.result[1].tool][resp.id].files :
           isErrorMarker(n))
        => resp.result[1].status = "failed"

\* C10: DELETE /jobs/:jobId leaves no directory of that id under the
\* output root of any configured tool.
C10_DeleteRemovesJob ==
    resp.op = "delete"
        => \A t \in ConfigTools : ~isDirectory(fs, t, resp.id)

\* C11: when a job's directory was deleted while its process was running,
\* the supervisor's handling of the exit does not bring the directory
\* back.  (No disk or spawn failure was met, so the directory createJob
\* made can only be gone because it was deleted.)
C11_DeletedStaysDeleted ==
    [][\A j \in JobIds :
          (/\ faults' = 0
           /\ procs[j]["em"].st = "running"
           /\ procs'[j]["em"].st # "running"
           /\ ~existsSync(fs, procs[j]["em"].tool, j))
              => ~existsSync(fs', procs[j]["em"].tool, j)]_vars

----------------------------------------------------------------------------
(* Properties of jobs running side by side *)

\* the names of the files in <tool>/output/<k>, none when it is no directory
filesOf(F, t, k) == DOMAIN F[t][k].files

\* the step changed the entry of id k under some tool
dirChanged(k) == \E t \in Tools : fs'[t][k] # fs[t][k]

\* the step is one of job j: its creation, or a step of its supervisors
stepOf(j) == jobs'[j] # jobs[j] \/ procs'[j] # procs[j]

----------------------------------------------------------------------------
(* Properties of job creation and of the queries *)

\* the answer accepts a job
Accepted == resp.op \in {"execute", "upload"} /\ resp.code = 200

\* C13: a job that createJob returned has its directory and its metadata
\* file: a failure to create them reaches the caller instead.
C13_CreatedJobHasDirectory ==
    Accepted
        => /\ isDirectory(fs, resp.tool, resp.id)
           /\ MetaName(resp.id) \in filesOf(fs, resp.tool, resp.id)

\* the tool job j was created for
toolOf(j) == procs[j]["app"].tool

\* job j was created, and its directory holds no marker and no log
justCreated(j) ==
    /\ procs[j]["app"].st # "none"
    /\ isDirectory(fs, toolOf(j), j)
    /\ fs[toolOf(j)][j].mode = "ok"
    /\ \A n \in filesOf(fs, toolOf(j), j) :
          ~isDoneMarker(n) /\ ~isErrorMarker(n)
              /\ ~endsWith(n, <<"log", ".txt">>)

\* position i of the answer is job j with this status
listedAs(i, j, status) ==
    resp.result[i].id = j /\ resp.result[i].status = status

\* C14: a created job whose directory holds no marker and no log yet is
\* answered as "running" by GET /jobs/:jobId and by GET /jobs, whatever
\* the job object in memory says.  (The directory is the one the claim
\* speaks of; a job createJob returned without one is the case of C13.)
C14_NewJobIsRunning ==
    \A j \in JobIds :
        justCreated(j)
            => /\ (resp.op = "status" /\ resp.id = j)
                     => resp.code = 200 /\ listedAs(1, j, "running")
               /\ (resp.op = "list" /\ resp.tool \in {"", toolOf(j)})
                     => \E i \in 1..Len(resp.result) : listedAs(i, j, "running")

\* the job object in memory is "queued" and the status query says "running"
C14_Witness ==
    /\ resp.op = "status" /\ resp.id = UuidPool[1]
    /\ justCreated(UuidPool[1])
    /\ jobs[UuidPool[1]].status = "queued"
    /\ procs[UuidPool[1]]["app"].st = "running"
    /\ resp.result[1].status = "running"

\* the directories a listing with this tool filter covers, seqs left out
listedDirs(tool) ==
    {k \in DirIds \ {SeqsId} :
        \E t \in Tools : (tool = "" \/ tool = t) /\ isDirectory(fs, t, k)}

\* the job at position i of the answer is what the disk says it is
fromDisk(i) ==
    LET job == resp.result[i]
    IN /\ job.tool \in Tools /\ isDirectory(fs, job.tool, job.id)
       /\ job.status = getJobStatus(fs, dirOrder, job.tool, job.id).value
       /\ job.createdAt = fs[job.tool][job.id].birthtime
       /\ job.files = getJobFiles(fs, job.tool, job.id)

\* the counters of getJobStats are those of the directories on disk
statsFromDisk(stats) ==
    LET dirs == {d \in Tools \X DirIds : isDirectory(fs, d[1], d[2])}
        n(st) == Cardinality({d \in dirs :
                     getJobStatus(fs, dirOrder, d[1], d[2]).value = st})
    IN /\ stats.all.total = Cardinality(dirs)
       /\ \A st \in {"running", "completed", "failed", "queued"} :
             stats.all[st] = n(st)

\* C15: the answers of the status query, of the listing and of the
\* statistics are determined by the job directories alone: they are the
\* same whatever job objects are in memory, and with none after a restart.
C15_AnswersFromDiskOnly ==
    /\ resp.op = "status"
          => /\ resp.code = 200 <=> \E t \in Tools : isDirectory(fs, t, resp.id)
             /\ resp.code = 200 => fromDisk(1) /\ resp.result[1].id = resp.id
    /\ resp.op = "list"
          => /\ \A i \in 1..Len(resp.result) : fromDisk(i)
             /\ {resp.result[i].id : i \in 1..Len(resp.result)}
                   = listedDirs(resp.tool)
             /\ statsFromDisk(resp.stats)

\* after a restart no job object is in memory, and the job is still
\* answered from its directory
C15_Witness ==
    /\ resp.op = "status" /\ resp.code = 200
    /\ resp.id = UuidPool[1]
    /\ jobs = NoJobs
    /\ procs[UuidPool[1]]["app"].st # "none"

C17_ExecutionNeverAnswers ==
    [][/\ issued' # issued
          => /\ resp'.op \in {"execute", "upload"}
             /\ resp'.code = 200
             /\ resp'.id = UuidPool[issued']
             /\ resp'.result[1].status = "queued"
       /\ (issued' = issued /\ (procs' # procs \/ jobs' # jobs))
          => resp' = NoResp]_vars

\* the job was accepted although its process could not be spawned
C17_Witness ==
    /\ Accepted
    /\ procs[resp.id]["app"].st = "closed"
    /\ procs[resp.id]["app"].code = SpawnErrorCode

----------------------------------------------------------------------------
(* The listing over job directories with any metadata file *)

\* what <id>_meta.json may hold
MetaContents ==
    {MetaObject("my job"), MetaObject(""), EmptyObject, JsonNull,
     <<"{", "jobName">>, <<>>}

\* colabfold/output/u1 with or without markers and metadata, readable or
\* not, and possibly seqs and a second job next to it
InitMeta ==
    /\ \E mode \in {"ok", "noread"},
          S \in SUBSET {DoneName(UuidPool[1]), ErrorName(UuidPool[1]),
                        MetaName(UuidPool[1])},
          c \in MetaContents, others \in SUBSET {SeqsId, UuidPool[2]} :
          /\ MetaName(UuidPool[1]) \notin S => c = <<>>
          /\ fs = [EmptyFs EXCEPT
                    !["colabfold"] =
                       [j \in DirIds |->
                          IF j = UuidPool[1]
                          THEN [kind |-> "dir", birthtime |-> 0,
                                mode |-> mode,
                                files |-> [n \in S |->
                                   File(0, IF n = MetaName(j) THEN c
                                           ELSE <<>>)]]
                          ELSE IF j \in others THEN NewDir(0) ELSE NoEnt]]
    /\ dirOrder \in DirOrders
    /\ now = 0
    /\ faults = 0
    /\ issued = 0
    /\ jobs = NoJobs
    /\ procs = NoProcs
    /\ serverUp = TRUE
    /\ resp = NoResp

NextMeta ==
    \/ \E t \in {"", "colabfold"}, st \in {"", "running"} :
          ResolveAll(t, st, dirOrder)
    \/ HttpGetAllJobs("", "", dirOrder)

SpecMeta == InitMeta /\ [][NextMeta]_vars

----------------------------------------------------------------------------
(* C18 *)

\* the metadata file of the directory names the job
namesJob(t, j) ==
    /\ MetaName(j) \in filesOf(fs, t, j)
    /\ fs[t][j].mode # "noread"
    /\ LET lines == fs[t][j].files[MetaName(j)].lines
       IN \E name \in {"my job", OriginalName, "Unnamed Job"} :
             lines = <<"{", "jobName", name, "}">>

\* the listing holds job j of tool t under the given name
listedWithName(t, j, name) ==
    \E i \in 1..Len(resp.result) :
        /\ resp.result[i].id = j
        /\ resp.result[i].tool = t
        /\ resp.result[i].jobName = name

\* C18: a listing that is not filtered by status holds every job directory
\* of the tools it scans whose metadata file is missing, unreadable,
\* unparsable or without a job name, under the name <tool>_<first eight
\* characters of the id>; the listing itself never fails.
C18_ListingSurvivesMetadata ==
    /\ resp.op = "list" => resp.code = 200
    /\ (resp.op \in {"getAllJobs", "list"} /\ resp.id = "")
          => \A t \in Tools, j \in DirIds :
                (/\ resp.tool \in {"", t}
                 /\ isDirectory(fs, t, j)
                 /\ ~(resp.op = "list" /\ j = SeqsId)
                 /\ ~namesJob(t, j))
                    => listedWithName(t, j, <<t, "_", substring8(j)>>)

\* a job whose metadata file does not parse was listed under the default
\* name
C18_Witness ==
    /\ resp.op = "getAllJobs"
    /\ MetaName(UuidPool[1]) \in filesOf(fs, "colabfold", UuidPool[1])
    /\ fs["colabfold"][UuidPool[1]].files[MetaName(UuidPool[1])].lines
          = <<"{", "jobName">>
    /\ listedWithName("colabfold", UuidPool[1],
                      <<"colabfold", "_", UuidHead[1]>>)

----------------------------------------------------------------------------
(* C19 *)

----------------------------------------------------------------------------
(* C20 *)

\* the 'close' listener of app.js ran for job j, or the server that should
\* have run it was gone
appClosed(j) ==
    procs[j]["app"].st = "running" /\ procs'[j]["app"].st = "closed"

\* ExecutionManager.executeToolCommand began for job j
emStarted(j) == serverUp /\ jobs[j].emPending /\ ~jobs'[j].emPending

\* C20: a step that only calls updateJobStatus (the 'close' listener of
\* app.js with "completed" or "failed", the start of ExecutionManager with
\* "running") leaves the status the resolver derives unchanged, for the
\* job it names and for every other directory.
C20_SnapshotIsAdvisory ==
    [][\A j \in JobIds :
          (appClosed(j) \/ emStarted(j))
             => \A t \in Tools, k \in DirIds :
                   getJobStatus(fs', dirOrder, t, k)
                      = getJobStatus(fs, dirOrder, t, k)]_vars

\* the snapshot of a job says "failed" or "completed" and the resolver
\* derives "running"
C20_Witness ==
    \E t \in Tools :
        /\ isDirectory(fs, t, UuidPool[1])
        /\ StatusName(UuidPool[1]) \in filesOf(fs, t, UuidPool[1])
        /\ fs[t][UuidPool[1]].files[StatusName(UuidPool[1])].lines
              \in {<<"failed">>, <<"completed">>}
        /\ procs[UuidPool[1]]["app"].st = "closed"
        /\ getJobStatus(fs, dirOrder, t, UuidPool[1]) = Return("running")

----------------------------------------------------------------------------
(* The directory scan over several job directories *)

\* the directories the scan may find: two under one tool, one under another
ScanDirs ==
    {<<"colabfold", UuidPool[1]>>, <<"colabfold", SeqsId>>,
     <<"proteinmpnn", UuidPool[2]>>}

\* what a directory may hold when the scan finds it
ScanMarkers(j) == {{}, {DoneName(j)}, {ErrorName(j)}}

\* each directory of ScanDirs absent, or present with any creation time
\* and any marker
ScanEntries(j) ==
    {NoEnt} \cup
    {[kind |-> "dir", birthtime |-> b, mode |-> "ok",
      files |-> [n \in S |-> File(b, <<>>)]] :
        b \in 0..MaxBirth, S \in ScanMarkers(j)}

\* the tool of job u1 as ExecutionManager spawned it
ScanProcess ==
    [st |-> "running", tool |-> "colabfold", code |-> 0,
     outdir |-> emPassesOutputDir("colabfold"), watched |-> TRUE]

InitScan ==
    /\ \E e1 \in ScanEntries(UuidPool[1]), e2 \in ScanEntries(SeqsId),
          e3 \in ScanEntries(UuidPool[2]) :
          fs = [EmptyFs EXCEPT !["colabfold"][UuidPool[1]] = e1,
                               !["colabfold"][SeqsId] = e2,
                               !["proteinmpnn"][UuidPool[2]] = e3]
    /\ dirOrder \in DirOrders
    /\ now = MaxBirth
    /\ faults = 0
    /\ issued = 0
    /\ jobs = NoJobs
    /\ procs \in {NoProcs,
                  [NoProcs EXCEPT ![UuidPool[1]]["em"] = ScanProcess]}
    /\ serverUp = TRUE
    /\ resp = NoResp

\* a direct call of JobManager.getAllJobs({tool, status, limit}); limit 0
\* stands for no limit
ListJobs(t, st, limit, ord) ==
    /\ serverUp
    /\ resp' = [op |-> "listJobs", tool |-> t, id |-> st, code |-> 0,
                limit |-> limit,
                result |-> getAllJobs(fs, ord,
                               [tool |-> t, status |-> st, limit |-> limit])]
    /\ UNCHANGED <<dirOrder, fs, now, faults, issued, jobs, procs, serverUp>>

\* JobManager.getJobStats() is entered: getAllJobs({}) has read the
\* containers root and is about to walk toolsToScan
StatsBegin ==
    /\ serverUp
    /\ resp = NoResp
    /\ resp' = [op |-> "scan", tool |-> "", id |-> "", code |-> 0,
                tools |-> ToolDirs, cur |-> "", dirs |-> <<>>,
                status |-> "", result |-> <<>>]
    /\ UNCHANGED <<dirOrder, fs, now, faults, issued, jobs, procs, serverUp>>

\* the loop reaches the next tool and lists its output directory
ScanTool ==
    /\ resp.op = "scan"
    /\ resp.dirs = <<>> /\ resp.tools # <<>>
    /\ resp' = [resp EXCEPT !.tools = Tail(resp.tools),
                            !.cur = Head(resp.tools),
                            !.dirs = jobDirs(fs, Head(resp.tools), dirOrder)]
    /\ UNCHANGED <<dirOrder, fs, now, faults, issued, jobs, procs, serverUp>>

\* the first statement of the loop body: this.getJobStatus(tool, jobId)
ScanStatus ==
    /\ resp.op = "scan"
    /\ resp.dirs # <<>> /\ resp.status = ""
    /\ resp' = [resp EXCEPT !.status =
                    getJobStatus(fs, dirOrder, resp.cur,
                                 Head(resp.dirs)).value]
    /\ UNCHANGED <<dirOrder, fs, now, faults, issued, jobs, procs, serverUp>>

\* the rest of the loop body: fs.statSync(jobPath), which throws for a
\* path that is gone (the job is skipped), then the job object is pushed
ScanStat ==
    /\ resp.op = "scan"
    /\ resp.dirs # <<>> /\ resp.status # ""
    /\ LET j == Head(resp.dirs)
           st == resp.status
           job == [jobObject(fs, dirOrder, resp.cur, j) EXCEPT
                      !.status = st,
                      !.progress = IF st = "completed" THEN 100
                                   ELSE IF st = "running" THEN 50 ELSE 0]
       IN resp' = [resp EXCEPT
                      !.dirs = Tail(resp.dirs), !.status = "",
                      !.result = IF existsSync(fs, resp.cur, j)
                                 THEN Append(resp.result, job)
                                 ELSE resp.result]
    /\ UNCHANGED <<dirOrder, fs, now, faults, issued, jobs, procs, serverUp>>

\* the loops are done: getAllJobs sorts and returns, getJobStats counts
StatsEnd ==
    /\ resp.op = "scan"
    /\ resp.dirs = <<>> /\ resp.tools = <<>>
    /\ resp' = [op |-> "stats", tool |-> "", id |-> "", code |-> 0,
                result |-> sortNewestFirst(resp.result),
                stats |-> statsOf(sortNewestFirst(resp.result))]
    /\ UNCHANGED <<dirOrder, fs, now, faults, issued, jobs, procs, serverUp>>

\* the `sudo rm -rf` child of an earlier DELETE removes the directory
\* while the scan runs
RmRf(t, j) ==
    /\ resp.op = "scan"
    /\ \E i \in 1..Len(PossibleJobDirs) : PossibleJobDirs[i] = t
    /\ existsSync(fs, t, j)
    /\ fs' = rmrf(fs, t, j)
    /\ UNCHANGED <<dirOrder, now, faults, issued, jobs, procs, serverUp, resp>>

\* a running tool makes its output directory while the scan runs
ToolMkdir(j, sup) ==
    /\ resp.op = "scan"
    /\ procs[j][sup].st = "running"
    /\ procs[j][sup].outdir
    /\ ~existsSync(fs, procs[j][sup].tool, j)
    /\ fs' = toolDir(fs, procs[j][sup].tool, j, now)
    /\ UNCHANGED <<dirOrder, now, faults, issued, jobs, procs, serverUp, resp>>

\* one query on each tree
NextScan ==
    \/ \E t \in {"", "colabfold"}, st \in {"", "completed", "running"},
          limit \in 0..MaxLimit :
             resp = NoResp /\ ListJobs(t, st, limit, dirOrder)
    \/ StatsBegin
    \/ ScanTool
    \/ ScanStatus
    \/ ScanStat
    \/ StatsEnd
    \/ \E t \in Tools, j \in DirIds : RmRf(t, j)
    \/ \E j \in JobIds, sup \in Sups : ToolMkdir(j, sup)

SpecScan == InitScan /\ [][NextScan]_vars

----------------------------------------------------------------------------
(* C21 *)

\* the status derived now for the directory of job j of tool t
derived(t, j) == getJobStatus(fs, dirOrder, t, j).value

\* the job directories that match the filter of the answered listing
Matching ==
    {d \in Tools \X DirIds :
        /\ isDirectory(fs, d[1], d[2])
        /\ resp.tool \in {"", d[1]}
        /\ resp.id \in {"", derived(d[1], d[2])}}

\* the directories the answered listing holds
Listed == {<<resp.result[i].tool, resp.result[i].id>> :
              i \in 1..Len(resp.result)}

----------------------------------------------------------------------------
(* C22 *)

\* the sum of the four per-status counters
statusSum(c) == c.running + c.completed + c.failed + c.queued

RECURSIVE toolTotals(_, _)
\* the sum of byTool[t].total over the tools of T
toolTotals(byTool, T) ==
    IF T = {} THEN 0
    ELSE LET t == CHOOSE x \in T : TRUE
         IN byTool[t].total + toolTotals(byTool, T \ {t})

\* C22: in every result of getJobStats, also of a scan during which
\* directories were deleted or created, total is the number of jobs
\* counted, total = running + completed + failed + queued, total is the
\* sum of byTool[t].total, and each byTool[t].total is the sum of that
\* tool's four per-status counts.
C22_StatsAddUp ==
    resp.op = "stats" =>
        /\ resp.stats.all.total = Len(resp.result)
        /\ resp.stats.all.total = statusSum(resp.stats.all)
        /\ resp.stats.all.total
              = toolTotals(resp.stats.byTool, DOMAIN resp.stats.byTool)
        /\ \A t \in DOMAIN resp.stats.byTool :
              resp.stats.byTool[t].total = statusSum(resp.stats.byTool[t])

----------------------------------------------------------------------------
(* The file endpoints *)

\* String.prototype.includes, on token sequences
includes(name, part) ==
    \E i \in 1..Len(name) :
        /\ i + Len(part) - 1 <= Len(name)
        /\ SubSeq(name, i, i + Len(part) - 1) = part

\* JobManager.isDownloadableFile(fileName)
isDownloadableFile(fileName) ==
    /\ ~includes(fileName, <<"_", "status", ".json">>)
    /\ ~includes(fileName, <<".done", ".txt">>)

\* a copy somebody kept of the status snapshot
StatusBackupName(j) == <<j, "_", "status", ".json", ".bak">>

\* the file names a request may ask for and a job directory may hold
FileNames(j) ==
    {DoneName(j), StatusName(j), StatusBackupName(j), MetaName(j),
     ErrorName(j), LogName, ResultName(j)}

\* colabfold/output/u1 with any of these files, or no such directory
InitFiles ==
    /\ \E S \in SUBSET FileNames(UuidPool[1]), there \in BOOLEAN :
          /\ ~there => S = {}
          /\ fs = IF there
                  THEN [EmptyFs EXCEPT !["colabfold"][UuidPool[1]] =
                          [kind |-> "dir", birthtime |-> 0, mode |-> "ok",
                           files |-> [n \in S |-> File(0, <<WorkLine>>)]]]
                  ELSE EmptyFs
    /\ dirOrder \in DirOrders
    /\ now = 0
    /\ faults = 0
    /\ issued = 0
    /\ jobs = NoJobs
    /\ procs = NoProcs
    /\ serverUp = TRUE
    /\ resp = NoResp

\* the answer of a file endpoint: `result` holds the names of the files
\* whose content was sent
fileAnswer(op, j, name, code, sent) ==
    [op |-> op, tool |-> "", id |-> j, file |-> name, code |-> code,
     result |-> sent]

\* GET /jobs/:jobId/download/:filename: JobController.downloadJobFile
HttpDownloadJobFile(j, name) ==
    /\ serverUp
    /\ LET found == findJob(getAllJobs(fs, dirOrder, NoFilters), j)
           answer(code, sent) == fileAnswer("download", j, name, code, sent)
       IN resp' =
            IF found = <<>> THEN answer(404, <<>>)
            ELSE IF name \notin DOMAIN fs[found[1].tool][j].files
                 THEN answer(404, <<>>)
            ELSE IF name \notin getJobFiles(fs, found[1].tool, j)
                    \/ ~isDownloadableFile(name)
                 THEN answer(403, <<>>)
            ELSE answer(200, <<name>>)
    /\ UNCHANGED <<dirOrder, fs, now, faults, issued, jobs, procs, serverUp>>

\* GET /files/job/:jobId/download/:fileName: FileController.serveJobFile
HttpServeJobFile(j, name) ==
    /\ serverUp
    /\ LET found == findJob(getAllJobs(fs, dirOrder, NoFilters), j)
           answer(code, sent) == fileAnswer("serve", j, name, code, sent)
       IN resp' =
            IF found = <<>> THEN answer(404, <<>>)
            ELSE IF name \notin DOMAIN fs[found[1].tool][j].files
                 THEN answer(404, <<>>)
            ELSE IF ~isDownloadableFile(name) THEN answer(403, <<>>)
            ELSE answer(200, <<name>>)
    /\ UNCHANGED <<dirOrder, fs, now, faults, issued, jobs, procs, serverUp>>

\* GET /jobs/:jobId/download-all: JobController.downloadAllJobFiles
HttpDownloadAllJobFiles(j) ==
    /\ serverUp
    /\ LET found == findJob(getAllJobs(fs, dirOrder, NoFilters), j)
           answer(code, sent) == fileAnswer("download-all", j, <<>>, code, sent)
       IN resp' =
            IF found = <<>> THEN answer(404, <<>>)
            ELSE LET t == found[1].tool
                     listed(n) == n \in getJobFiles(fs, t, j)
                     files == SelectSeq(readdirSync(fs, t, j, dirOrder), listed)
                     downloadableFiles == SelectSeq(files, isDownloadableFile)
                 IN IF downloadableFiles = <<>> THEN answer(404, <<>>)
                    ELSE answer(200, downloadableFiles)
    /\ UNCHANGED <<dirOrder, fs, now, faults, issued, jobs, procs, serverUp>>

\* GET /files/job/:jobId/content/:fileName: FileController.getFileContent
HttpGetFileContent(j, name) ==
    /\ serverUp
    /\ LET found == findJob(getAllJobs(fs, dirOrder, NoFilters), j)
           answer(code, sent) == fileAnswer("content", j, name, code, sent)
       IN resp' =
            IF found = <<>> THEN answer(404, <<>>)
            ELSE IF name \notin DOMAIN fs[found[1].tool][j].files
                 THEN answer(404, <<>>)
            ELSE answer(200, <<name>>)
    /\ UNCHANGED <<dirOrder, fs, now, faults, issued, jobs, procs, serverUp>>

\* one request on each directory
NextFiles ==
    \/ \E j \in Ids, name \in FileNames(UuidPool[1]) :
          resp = NoResp /\ HttpDownloadJobFile(j, name)
    \/ \E j \in Ids, name \in FileNames(UuidPool[1]) :
          resp = NoResp /\ HttpServeJobFile(j, name)
    \/ \E j \in Ids : resp = NoResp /\ HttpDownloadAllJobFiles(j)
    \/ \E j \in Ids, name \in FileNames(UuidPool[1]) :
          resp = NoResp /\ HttpGetFileContent(j, name)

SpecFiles == InitFiles /\ [][NextFiles]_vars

----------------------------------------------------------------------------
(* C23 *)

\* an internal bookkeeping file: its name holds _status.json or .done.txt
isInternal(name) ==
    \E i \in 1..Len(name) :
        \/ /\ name[i] = ".done"
           /\ i < Len(name) /\ name[i + 1] = ".txt"
        \/ /\ name[i] = "_"
           /\ i + 1 < Len(name)
           /\ name[i + 1] = "status" /\ name[i + 2] = ".json"

fileOps == {"download", "serve", "download-all", "content"}

\* the file the request names is in the directory of the job it names
askedFileExists ==
    \E t \in Tools :
        /\ isDirectory(fs, t, resp.id)
        /\ resp.file \in filesOf(fs, t, resp.id)

\* C23: no endpoint sends the content of an internal bookkeeping file:
\* download and serve answer 403 for one that exists, the archive leaves
\* it out; every other file of the job directory is sent when asked for.
C23_InternalFilesNeverServed ==
    resp.op \in fileOps =>
        /\ \A i \in 1..Len(resp.result) : ~isInternal(resp.result[i])
        /\ (resp.op \in {"download", "serve"} /\ askedFileExists)
              => IF isInternal(resp.file)
                 THEN resp.code = 403 /\ resp.result = <<>>
                 ELSE resp.code = 200 /\ resp.result = <<resp.file>>

----------------------------------------------------------------------------
(* The argument vector of the external process *)

\* A JavaScript value as it stands in job.parameters or in the argument
\* vector: t is its type; form tells what was made of it ("plain": the
\* value itself, "json": JSON.stringify of it, "db": the template
\* database/<v>/<v>, "outdir": the template output/<v>); segs are the
\* segments of a path
Val(t, n, s, b) ==
    [t |-> t, n |-> n, s |-> s, b |-> b, form |-> "plain", segs |-> <<>>]
Undefined == Val("undefined", 0, "", FALSE)
Num(n) == Val("number", n, "", FALSE)
Str(x) == Val("string", 0, x, FALSE)
Bool(b) == Val("boolean", 0, "", b)
NaN == Val("NaN", 0, "", FALSE)
AbsPath(segs) == [Val("path", 0, "", FALSE) EXCEPT !.segs = segs]
RelPath(segs) == [Val("relpath", 0, "", FALSE) EXCEPT !.segs = segs]

\* the truthiness an `if (value)` tests
truthy(v) ==
    CASE v.t = "number" -> v.n # 0
      [] v.t = "string" -> v.s # ""
      [] v.t = "boolean" -> v.b
      [] v.t \in {"undefined", "NaN"} -> FALSE
      [] OTHER -> TRUE

\* parseInt(value)
parseInt(v) ==
    CASE v.t = "number" -> v
      [] v.t = "string" /\ v.s = "512" -> Num(512)
      [] OTHER -> NaN

\* JSON.stringify(value)
JSONstringify(v) == [v EXCEPT !.form = "json"]

\* `database/${v}/${v}`
dbPath(v) == [v EXCEPT !.form = "db"]

outputDirShared(id) == [Str("") EXCEPT !.form = "outdir"]

\* `output/${job.id}`
outputDirOf(id) == [Str(id) EXCEPT !.form = "outdir"]

RECURSIVE normalize(_, _)
\* path.normalize on segments: a ".." takes back the segment before it
normalize(done, segs) ==
    IF segs = <<>> THEN done
    ELSE IF Head(segs) = ".." /\ done # <<>>
         THEN normalize(SubSeq(done, 1, Len(done) - 1), Tail(segs))
         ELSE normalize(Append(done, Head(segs)), Tail(segs))

\* path.join(dir, rel)
join(dir, rel) == normalize(<<>>, dir \o rel)

\* path.dirname and path.basename
dirname(segs) == SubSeq(segs, 1, Len(segs) - 1)
basename(segs) == segs[Len(segs)]

\* __dirname of app.js, and of utils/fileUtils.js
ServerDir == <<"data", "zqjd", "server">>
UtilsDir == <<"data", "zqjd", "server", "utils">>

\* config.tools[tool].scriptPath
scriptPathOf(tool) ==
    <<"..", "containers", tool, "run_" \o tool \o "_docker.py">>

\* config.tools[tool].inputDir
inputDirOf(tool) == <<"..", "containers", tool, "input">>

\* one `if (...) args.push(...)` line: the parameter key, the flag, the
\* test ("truthy": if (v); "defined": if (v !== undefined); "notAuto":
\* if (v && v !== 'auto')) and what is pushed after the flag ("value",
\* "parseInt", "db", "json", or "nothing" for a bare flag)
Rule(key, flag, test, push) ==
    [key |-> key, flag |-> flag, test |-> test, push |-> push]

\* the switch of executeToolCommand in app.js
appRules(tool) ==
    CASE tool = "proteinmpnn" ->
           <<Rule("chains", "--chains", "truthy", "value"),
             Rule("numDesigns", "--num-designs", "truthy", "value"),
             Rule("temperature", "--temperature", "truthy", "value"),
             Rule("omitAA", "--omit-aa", "truthy", "value")>>
      [] tool = "colabfold" ->
           <<Rule("modelType", "--model-type", "truthy", "value"),
             Rule("numModels", "--num-models", "truthy", "value"),
             Rule("numRecycles", "--num-recycles", "truthy", "value"),
             Rule("maxSeq", "--max-seq", "notAuto", "parseInt"),
             Rule("maxExtraSeq", "--max-extra-seq", "notAuto", "parseInt"),
             Rule("useGpu", "--use-gpu", "defined", "nothing")>>
      [] tool = "foldseek" ->
           <<Rule("database", "--db", "truthy", "db"),
             Rule("sensitivity", "--sensitivity", "truthy", "value"),
             Rule("evalue", "--evalue", "truthy", "value"),
             Rule("maxResults", "--max-seqs", "truthy", "value")>>
      [] tool = "colabdock" ->
           <<Rule("chains", "--chains", "truthy", "value"),
             Rule("fixedChains", "--fixed-chains", "truthy", "value"),
             Rule("resThres", "--res-thres", "truthy", "value"),
             Rule("repThres", "--rep-thres", "truthy", "value"),
             Rule("rounds", "--rounds", "truthy", "value"),
             Rule("steps", "--steps", "truthy", "value"),
             Rule("saveEveryNStep", "--save-every-n-step", "truthy", "value"),
             Rule("useMultimer", "--use-multimer", "defined", "nothing"),
             Rule("bfloat", "--bfloat", "defined", "nothing"),
             Rule("rest1v1", "--rest-1v1", "truthy", "json"),
             Rule("rest1vN", "--rest-1vn", "truthy", "json"),
             Rule("restMvN", "--rest-mvn", "truthy", "json"),
             Rule("restRep", "--rest-rep", "truthy", "json")>>
      [] OTHER -> <<>>

\* the switch of ExecutionManager.executeToolCommand
emRules(tool) ==
    CASE tool = "proteinmpnn" ->
           <<Rule("chains", "--chains", "truthy", "value"),
             Rule("numDesigns", "--num-designs", "truthy", "value"),
             Rule("temperature", "--temperature", "truthy", "value"),
             Rule("omitAA", "--omit-aa", "truthy", "value"),
             Rule("modelName", "--model-name", "truthy", "value"),
             Rule("batchSize", "--batch-size", "truthy", "value"),
             Rule("caOnly", "--ca-only", "truthy", "nothing"),
             Rule("maxLength", "--max-length", "truthy", "value"),
             Rule("seed", "--seed", "defined", "value"),
             Rule("saveScore", "--save-score", "defined", "value"),
             Rule("saveProbs", "--save-probs", "defined", "value")>>
      [] tool = "colabfold" ->
           <<Rule("modelType", "--model-type", "truthy", "value"),
             Rule("numModels", "--num-models", "truthy", "value"),
             Rule("numRecycles", "--num-recycles", "notAuto", "value"),
             Rule("maxSeq", "--max-seq", "notAuto", "parseInt"),
             Rule("maxExtraSeq", "--max-extra-seq", "notAuto", "parseInt"),
             Rule("useGpu", "--use-gpu", "defined", "nothing")>>
      [] tool = "foldseek" ->
           <<Rule("database", "--db", "truthy", "db"),
             Rule("sensitivity", "--sensitivity", "truthy", "value"),
             Rule("evalue", "--evalue", "truthy", "value"),
             Rule("maxResults", "--max-seqs", "truthy", "value")>>
      [] OTHER -> <<>>

\* what the switch pushes before its `if` lines
appFixedArgs(tool, id) ==
    CASE tool = "colabfold" -> <<Str("--output-dir"), outputDirOf(id)>>
      [] tool = "foldseek" ->
           <<Str("--output"), outputDirOf(id), Str("--job-id"), Str(id)>>
      [] tool = "colabdock" ->
           <<Str("--output-dir"), outputDirOf(id), Str("--job-id"), Str(id)>>
      [] OTHER -> <<>>

emFixedArgs(tool, id) ==
    CASE tool \in {"proteinmpnn", "colabfold"} ->
           <<Str("--output-dir"), outputDirOf(id)>>
      [] OTHER -> <<>>

\* whether the test of a rule lets the value through
passes(test, v) ==
    CASE test = "truthy" -> truthy(v)
      [] test = "defined" -> v # Undefined
      [] test = "notAuto" -> truthy(v) /\ v # Str("auto")

\* what a rule pushes for a value that passed
pushed(rule, v) ==
    CASE rule.push = "value" -> <<Str(rule.flag), v>>
      [] rule.push = "parseInt" -> <<Str(rule.flag), parseInt(v)>>
      [] rule.push = "db" -> <<Str(rule.flag), dbPath(v)>>
      [] rule.push = "json" -> <<Str(rule.flag), JSONstringify(v)>>
      [] rule.push = "nothing" -> <<Str(rule.flag)>>

RECURSIVE pushArgs(_, _)
\* the `if` lines of one case of the switch, in order
pushArgs(rules, parameters) ==
    IF rules = <<>> THEN <<>>
    ELSE LET r == Head(rules)
             v == parameters[r.key]
         IN (IF passes(r.test, v) THEN pushed(r, v) ELSE <<>>)
            \o pushArgs(Tail(rules), parameters)

\* executeToolCommand of app.js: the arguments and the options of spawn
appSpawn(job) ==
    LET scriptPath == join(ServerDir, scriptPathOf(job.tool))
    IN [args |-> <<AbsPath(scriptPath), job.file>>
                   \o appFixedArgs(job.tool, job.id)
                   \o pushArgs(appRules(job.tool), job.parameters),
        cwd |-> dirname(scriptPath)]

\* ExecutionManager.executeToolCommand: the arguments and the options of
\* spawn
emSpawn(job) ==
    LET scriptPath == join(UtilsDir, <<"..">> \o scriptPathOf(job.tool))
        inputFile == IF job.tool = "proteinmpnn"
                     THEN RelPath(<<"input", basename(job.file.segs)>>)
                     ELSE job.file
    IN [args |-> <<AbsPath(scriptPath), inputFile>>
                   \o emFixedArgs(job.tool, job.id)
                   \o pushArgs(emRules(job.tool), job.parameters),
        cwd |-> dirname(scriptPath)]

\* the parameter keys either switch reads for a tool, and one it does not
keysOf(tool) ==
    {appRules(tool)[i].key : i \in 1..Len(appRules(tool))}
    \cup {emRules(tool)[i].key : i \in 1..Len(emRules(tool))}
    \cup {"other"}

ParamKeys == UNION {keysOf(tool) : tool \in ConfigTools}

\* the values a request may give a parameter
ParamValues ==
    {Num(0), Num(5), Str(""), Str("auto"), Str("512"), Bool(FALSE), Bool(TRUE)}

RECURSIVE ParameterSets(_, _)
\* job.parameters with at most n keys given: an absent key reads undefined
ParameterSets(tool, n) ==
    IF n = 0 THEN {[k \in ParamKeys |-> Undefined]}
    ELSE LET fewer == ParameterSets(tool, n - 1)
         IN fewer \cup {[p EXCEPT ![k] = v] :
                           p \in fewer, k \in keysOf(tool), v \in ParamValues}

\* the name multer gave the uploaded file
UploadedFile == "f1.pdb"

\* fileInfo.path: the path POST /execute was given, or the path
\* uploadAndRun moved the file to
filePathOf(tool, path) ==
    IF path = "upload"
    THEN AbsPath(join(ServerDir \o <<"controllers">>,
                      <<"..">> \o inputDirOf(tool) \o <<UploadedFile>>))
    ELSE AbsPath(<<"data", "zqjd", "server", "uploads", UploadedFile>>)

\* the job object createJob returned
jobWith(id, tool, path, parameters) ==
    [id |-> id, tool |-> tool, status |-> "queued", path |-> path,
     emPending |-> path = "upload",
     file |-> filePathOf(tool, path), parameters |-> parameters]

\* a job was created by either endpoint with any parameters; nothing was
\* spawned yet
InitArgs ==
    /\ \E tool \in ConfigTools, path \in {"execute", "upload"} :
          \E parameters \in ParameterSets(tool, MaxParams) :
             /\ jobs = [NoJobs EXCEPT ![UuidPool[1]] =
                           jobWith(UuidPool[1], tool, path, parameters)]
             /\ fs = createJobFiles(EmptyFs, tool, UuidPool[1], path, 0, TRUE)
    /\ dirOrder \in DirOrders
    /\ now = 0
    /\ faults = 0
    /\ issued = 1
    /\ procs = NoProcs
    /\ serverUp = TRUE
    /\ resp = NoResp

\* the child as the supervisor holds it, with what spawn was given
spawned(tool, outdir, sp) ==
    [st |-> "running", tool |-> tool, code |-> 0, outdir |-> outdir,
     watched |-> TRUE, args |-> sp.args, cwd |-> sp.cwd]

\* executeToolCommand of app.js, called by the patched createJob
AppExecuteToolCommand(j) ==
    /\ serverUp
    /\ jobs[j].tool # ""
    /\ procs[j]["app"].st = "none"
    /\ fs' = updateJobStatus(fs, j, "running", now)
    /\ procs' = [procs EXCEPT ![j]["app"] =
                    spawned(jobs[j].tool, appPassesOutputDir(jobs[j].tool),
                            appSpawn(jobs[j]))]
    /\ resp' = NoResp
    /\ UNCHANGED <<dirOrder, now, faults, issued, jobs, serverUp>>

\* ExecutionManager.executeToolCommand, called by uploadAndRun
EmExecuteToolCommand(j) ==
    /\ serverUp
    /\ jobs[j].emPending
    /\ jobs' = [jobs EXCEPT ![j].emPending = FALSE]
    /\ fs' = updateJobStatus(fs, j, "running", now)
    /\ procs' = [procs EXCEPT ![j]["em"] =
                    spawned(jobs[j].tool, emPassesOutputDir(jobs[j].tool),
                            emSpawn(jobs[j]))]
    /\ resp' = NoResp
    /\ UNCHANGED <<dirOrder, now, faults, issued, serverUp>>

NextArgs ==
    \/ \E j \in JobIds : AppExecuteToolCommand(j)
    \/ \E j \in JobIds : EmExecuteToolCommand(j)

SpecArgs == InitArgs /\ [][NextArgs]_vars

----------------------------------------------------------------------------
(* C24 *)

\* the rules of the switch the supervisor `sup` runs
rulesOf(sup, tool) == IF sup = "app" THEN appRules(tool) ELSE emRules(tool)

\* the positions of the flag in the argument vector
flagAt(args, flag) == {i \in 1..Len(args) : args[i] = Str(flag)}

\* C24: in the argument vector of every spawned process, the flag of a
\* parameter is there exactly when job.parameters has the key, followed
\* by the value as it was given; a flag without a value is there exactly
\* when the key is given and is not false.
C24_FlagIffKeyPresent ==
    \A j \in JobIds, sup \in Sups :
        procs[j][sup].st = "running" =>
            LET args == procs[j][sup].args
                rules == rulesOf(sup, jobs[j].tool)
            IN \A i \in 1..Len(rules) :
                  LET r == rules[i]
                      v == jobs[j].parameters[r.key]
                      at == flagAt(args, r.flag)
                  IN IF r.push = "nothing"
                     THEN (at # {}) <=> (v # Undefined /\ v # Bool(FALSE))
                     ELSE /\ (at # {}) <=> (v # Undefined)
                          /\ \A k \in at : k < Len(args) /\ args[k + 1] = v

----------------------------------------------------------------------------
(* C25 *)

\* the file an argument names, seen from the working directory
resolve(cwd, arg) == IF arg.t = "relpath" THEN cwd \o arg.segs ELSE arg.segs

\* the directory that holds the tool and its entry script
containerOf(tool) == <<"data", "zqjd", "containers", tool>>

\* C25: the argument vector of every spawned process begins with the
\* entry script of the job's tool and a path that names the job's input
\* file; every output directory among the arguments is output/<id> of
\* this very job, behind --output-dir or --output; the working directory
\* is the directory of the script.
C25_ScriptInputAndOutputDir ==
    \A j \in JobIds, sup \in Sups :
        procs[j][sup].st = "running" =>
            LET args == procs[j][sup].args
                cwd == procs[j][sup].cwd
            IN /\ Len(args) >= 2
               /\ args[1].t = "path"
               /\ dirname(args[1].segs) = containerOf(jobs[j].tool)
               /\ cwd = containerOf(jobs[j].tool)
               /\ resolve(cwd, args[2]) = jobs[j].file.segs
               /\ \A i \in 1..Len(args) :
                     args[i].form = "outdir"
                        => /\ args[i].t = "string" /\ args[i].s = j
                           /\ i > 2
                           /\ args[i - 1] \in {Str("--output-dir"),
                                               Str("--output")}
               /\ procs[j][sup].outdir
                     <=> \E i \in 1..Len(args) : args[i].form = "outdir"

\* ExecutionManager spawned proteinmpnn with input/<name> and its own
\* output directory
C25_Witness ==
    /\ procs[UuidPool[1]]["em"].st = "running"
    /\ jobs[UuidPool[1]].tool = "proteinmpnn"
    /\ procs[UuidPool[1]]["em"].args[2] = RelPath(<<"input", UploadedFile>>)
    /\ procs[UuidPool[1]]["em"].args[4].form = "outdir"
    /\ procs[UuidPool[1]]["app"].st = "running"

----------------------------------------------------------------------------
(* C26 *)

\* the supervisors that spawned a process for job j
spawnedFor(j) ==
    {s \in Sups : procs[j][s].st # "none" /\ procs[j][s].code # SpawnErrorCode}

\* C26: over its whole lifetime a job has one external process spawned
\* for it, whichever endpoint created it: never a second one.
C26_OneProcessPerJob ==
    \A j \in JobIds : Cardinality(spawnedFor(j)) <= 1

----------------------------------------------------------------------------
(* C27 *)

\* every process of job j has exited or could not be spawned, the
\* listeners of the server that created the job have run to their end,
\* and that server is still running: no step but a deletion can write
\* into the directory of the job any more
settled(j) ==
    /\ serverUp
    /\ jobs[j].tool # ""
    /\ ~jobs[j].emPending
    /\ \A s \in Sups : procs[j][s].st \in {"none", "closed"}
    /\ \E s \in Sups : procs[j][s].st = "closed"

\* C27: once the process of a job has exited or failed to spawn and the
\* server has handled it, the status derived for the job's directory is
\* "completed" or "failed"; it is not left at "running" or "queued".
C27_ExitedJobIsTerminal ==
    \A j \in JobIds :
        (settled(j) /\ isDirectory(fs, jobs[j].tool, j))
            => getJobStatus(fs, dirOrder, jobs[j].tool, j).value
                  \in {"completed", "failed"}

----------------------------------------------------------------------------
(* C28 *)

\* C28: whenever the status derived for a job's directory is "completed",
\* no external process spawned for that job is still running.
C28_CompletedMeansNoProcess ==
    \A t \in Tools, j \in JobIds :
        getJobStatus(fs, dirOrder, t, j).value = "completed"
            => \A s \in Sups : procs[j][s].st # "running"

----------------------------------------------------------------------------
(* C29 *)

\* line sequence a is the beginning of line sequence b
appendedTo(a, b) == Len(a) <= Len(b) /\ SubSeq(b, 1, Len(a)) = a

\* the step keeps the directory of job j and only adds to it: no file
\* goes away and every file keeps the lines it had
accumulates(t, j) ==
    /\ fs[t][j].kind = "dir" /\ fs'[t][j].kind = "dir"
    /\ fs'[t][j].mode = fs[t][j].mode
    /\ \A n \in DOMAIN fs[t][j].files :
          /\ n \in DOMAIN fs'[t][j].files
          /\ appendedTo(fs[t][j].files[n].lines, fs'[t][j].files[n].lines)

\* C29: over a step that keeps the job directory and only adds files or
\* log lines to it, a derived status of "failed" stays "failed" and a
\* derived status of "completed" becomes "completed" or "failed"; it
\* never goes back to "running" or "queued".
C29_StatusNeverMovesBack ==
    [][\A t \in Tools, j \in JobIds :
          LET before == getJobStatus(fs, dirOrder, t, j).value
              after == getJobStatus(fs', dirOrder', t, j).value
          IN accumulates(t, j) =>
                /\ before = "failed" => after = "failed"
                /\ before = "completed" => after \in {"completed", "failed"}
      ]_vars

----------------------------------------------------------------------------
(* The ColabFold dashboard *)

\* the status ColabFoldController.getDashboard computes from the names of
\* a job directory
dashboardStatus(files) ==
    LET isDone(f) == endsWith(f, <<".done", ".txt">>)
        isFailedFile(f) ==
            testFailed(f) \/ endsWith(f, <<"_", "error", ".txt">>)
        doneFiles == SelectSeq(files, isDone)
        failedFiles == SelectSeq(files, isFailedFile)
        isFailed == Len(failedFiles) > 0
        isComplete == Len(doneFiles) > 0 /\ ~isFailed
    IN IF isFailed THEN "failed"
       ELSE IF isComplete THEN "completed" ELSE "running"

\* the identifier jobFromMemory is declared nowhere in the controller:
\* evaluating it throws a ReferenceError
jobFromMemory == Throw("ReferenceError")

\* completedAt of a dashboard entry: the mtime of the first done marker of
\* a completed job, as a one-element sequence; null is the empty sequence
dashboardCompletedAt(F, jobId, files, status) ==
    LET isDone(f) == endsWith(f, <<".done", ".txt">>)
        doneFiles == SelectSeq(files, isDone)
    IN IF status = "completed" /\ Len(doneFiles) > 0
       THEN <<F["colabfold"][jobId].files[doneFiles[1]].mtime>>
       ELSE <<>>

\* the stats object of getDashboard
dashboardStats(jobsList) ==
    LET n(st) == Cardinality({i \in 1..Len(jobsList) : jobsList[i].status = st})
    IN [total |-> Len(jobsList), running |-> n("running"),
        completed |-> n("completed")]

\* the body of getDashboard's loop for directory jobId: the object it
\* pushes, or the error the surrounding try block catches
dashboardJob(F, ord, jobId) ==
    IF F["colabfold"][jobId].mode = "nolist" THEN Throw("EACCES")
    ELSE LET files == readdirSync(F, "colabfold", jobId, ord)
             status == dashboardStatus(files)
         IN IF jobFromMemory.thrown THEN jobFromMemory
            ELSE Return([jobId |-> jobId, status |-> status,
                         isComplete |-> status = "completed",
                         createdAt |-> F["colabfold"][jobId].birthtime,
                         completedAt |->
                             dashboardCompletedAt(F, jobId, files, status),
                         fileCount |->
                             Cardinality(DOMAIN F["colabfold"][jobId].files),
                         hasInMemoryData |-> jobFromMemory.value])

\* the jobs array of getDashboard: a directory whose processing throws is
\* skipped
dashboardJobs(F, ord) ==
    LET directories == jobDirs(F, "colabfold", ord)
        isPushed(j) == ~dashboardJob(F, ord, j).thrown
        kept == SelectSeq(directories, isPushed)
    IN sortNewestFirst([i \in 1..Len(kept) |->
                            dashboardJob(F, ord, kept[i]).value])

\* ColabFoldController.getDashboard
HttpGetDashboard(ord) ==
    /\ serverUp
    /\ resp' = [op |-> "dashboard", tool |-> "colabfold", id |-> "",
                code |-> 200, result |-> dashboardJobs(fs, ord),
                stats |-> dashboardStats(dashboardJobs(fs, ord))]
    /\ UNCHANGED <<dirOrder, fs, now, faults, issued, jobs, procs, serverUp>>

\* the dashboard and the resolver, each asked about the same directory
NextDashboard ==
    \/ asked("dashboard", "colabfold", "") /\ HttpGetDashboard(dirOrder)
    \/ \E j \in Ids :
          asked("getJobStatus", "colabfold", j)
              /\ ResolveStatus("colabfold", j, dirOrder)

SpecDashboard == InitResolve /\ [][NextDashboard]_vars

\* C30: the dashboard lists every colabfold job directory with the status
\* JobManager.getJobStatus returns for the same directory content.
C30_ResolversAgree ==
    resp.op = "dashboard" =>
        \A j \in DirIds :
            isDirectory(fs, "colabfold", j) =>
                \E i \in 1..Len(resp.result) :
                    /\ resp.result[i].jobId = j
                    /\ resp.result[i].status
                          = getJobStatus(fs, dirOrder, "colabfold", j).value

----------------------------------------------------------------------------
(* C31 *)

\* the colabfold job directories the dashboard can read
readableDirs == {j \in DirIds : /\ isDirectory(fs, "colabfold", j)
                                /\ fs["colabfold"][j].mode # "nolist"}

\* the first done marker of directory j in listing order, as a set
firstDone(j) ==
    LET files == readdirSync(fs, "colabfold", j, dirOrder)
        done == SelectSeq(files, isDoneMarker)
    IN IF done = <<>> THEN {} ELSE {done[1]}

\* C31: the dashboard answers with exactly one entry for every readable
\* directory of the colabfold output root, stats.total is the number of
\* those directories, and a completed entry carries the modification time
\* of the first done marker of its directory.
C31_DashboardListsEveryDirectory ==
    resp.op = "dashboard" =>
        /\ \A j \in readableDirs :
              Cardinality({i \in 1..Len(resp.result) :
                              resp.result[i].jobId = j}) = 1
        /\ resp.stats.total = Cardinality(readableDirs)
        /\ \A i \in 1..Len(resp.result) :
              resp.result[i].status = "completed" =>
                  \E n \in firstDone(resp.result[i].jobId) :
                      resp.result[i].completedAt
                          = <<fs["colabfold"][resp.result[i].jobId]
                                 .files[n].mtime>>

----------------------------------------------------------------------------
(* The file endpoints, on paths *)

\* In this part a string is a sequence of tokens and a path is a sequence
\* of segments, each segment a string.

\* a directory next to the job directories whose name begins with the id
\* of the first job
SiblingId == "u1_old"

\* the name of entry d of an output directory, as a string
nameOf(d) == IF d = SiblingId THEN <<UuidPool[1], "_old">> ELSE <<d>>

\* a file that belongs to no job
SecretName == <<"secret", ".txt">>

\* '/data/zqjd/containers'
containersPath == <<<<"data">>, <<"zqjd">>, <<"containers">>>>

\* job.outputPath: path.join(containersPath, tool, 'output', jobId)
outputPathOf(tool, jobId) ==
    containersPath \o <<<<tool>>, <<"output">>, nameOf(jobId)>>

RECURSIVE pathNormalize(_, _)
\* path.normalize on the segments of an absolute path
pathNormalize(done, segs) ==
    IF segs = <<>> THEN done
    ELSE IF Head(segs) = <<"..">>
         THEN pathNormalize(IF done = <<>> THEN <<>>
                            ELSE SubSeq(done, 1, Len(done) - 1), Tail(segs))
         ELSE pathNormalize(Append(done, Head(segs)), Tail(segs))

\* path.join(dir, fileName)
pathJoin(dir, fileName) == pathNormalize(<<>>, dir \o fileName)

RECURSIVE pathString(_)
\* the string of an absolute path: every segment after a "/"
pathString(segs) ==
    IF segs = <<>> THEN <<>>
    ELSE <<"/">> \o Head(segs) \o pathString(Tail(segs))

RECURSIVE relativeString(_)
\* the string of a request's fileName: its segments with "/" between them
relativeString(segs) ==
    IF Len(segs) = 1 THEN segs[1]
    ELSE segs[1] \o <<"/">> \o relativeString(Tail(segs))

startsWithSegments(s, prefix) ==
    Len(s) >= Len(prefix) /\ SubSeq(s, 1, Len(prefix)) = prefix

\* String.prototype.startsWith, on the strings of two paths
startsWith(s, prefix) ==
    /\ Len(pathString(s)) >= Len(pathString(prefix))
    /\ SubSeq(pathString(s), 1, Len(pathString(prefix))) = pathString(prefix)

\* the entries of the colabfold output directory in this part
PathDirs == {UuidPool[1], UuidPool[2], SiblingId}

\* the file a path names: the entry of the colabfold output directory and
\* the file in it, or nothing when the path names no regular file
fileAt(F, p) ==
    {f \in [dir : PathDirs, name : {ResultName(UuidPool[1]),
                                     ResultName(UuidPool[2]),
                                     StatusName(UuidPool[1]), SecretName}] :
        /\ p = outputPathOf("colabfold", f.dir) \o <<f.name>>
        /\ F["colabfold"][f.dir].kind = "dir"
        /\ f.name \in DOMAIN F["colabfold"][f.dir].files}

\* the fileName parameters of the requests: a file of the job, the
\* snapshot of the job, a file of another job, a file of the sibling
\* directory and an uploaded input file
RequestFileNames ==
    {<<ResultName(UuidPool[1])>>,
     <<StatusName(UuidPool[1])>>,
     <<<<"..">>, <<UuidPool[2]>>, ResultName(UuidPool[2])>>,
     <<<<"..">>, nameOf(SiblingId), SecretName>>,
     <<<<"..">>, <<"..">>, <<"input">>, SecretName>>}

\* colabfold/output with the directories u1, u2 and u1_old, each absent or
\* present with some of its files
InitPaths ==
    /\ \E S1 \in SUBSET {ResultName(UuidPool[1]), StatusName(UuidPool[1])},
          S2 \in SUBSET {ResultName(UuidPool[2])},
          S3 \in SUBSET {SecretName},
          there \in [PathDirs -> BOOLEAN] :
          LET entry(d, S) ==
                  IF there[d]
                  THEN [kind |-> "dir", birthtime |-> 0, mode |-> "ok",
                        files |-> [n \in S |-> File(0, <<WorkLine>>)]]
                  ELSE NoEnt
          IN /\ \A d \in PathDirs : ~there[d] =>
                    (CASE d = UuidPool[1] -> S1 = {}
                       [] d = UuidPool[2] -> S2 = {}
                       [] OTHER -> S3 = {})
             /\ fs = [EmptyFs EXCEPT !["colabfold"] =
                        (SiblingId :> entry(SiblingId, S3)) @@
                        [EmptyFs["colabfold"] EXCEPT
                            ![UuidPool[1]] = entry(UuidPool[1], S1),
                            ![UuidPool[2]] = entry(UuidPool[2], S2)]]
    /\ dirOrder \in DirOrders
    /\ now = 0
    /\ faults = 0
    /\ issued = 0
    /\ jobs = NoJobs
    /\ procs = NoProcs
    /\ serverUp = TRUE
    /\ resp = NoResp

\* the steps the three handlers share: find the job, join the path, the
\* startsWith check, existsSync; `checked` says whether the handler asks
\* isDownloadableFile; the answer holds the file that was read
pathRequest(op, j, fileName, checked, readOk) ==
    LET found == findJob(getAllJobs(fs, dirOrder, NoFilters), j)
        answer(code, sent) ==
            [op |-> op, tool |-> "", id |-> j, file |-> fileName,
             code |-> code, result |-> sent]
    IN IF found = <<>> THEN answer(404, <<>>)
       ELSE LET outputPath == outputPathOf(found[1].tool, j)
                filePath == pathJoin(outputPath, fileName)
                target == fileAt(fs, filePath)
            IN IF ~startsWith(filePath, outputPath) THEN answer(403, <<>>)
               ELSE IF target = {} THEN answer(404, <<>>)
               ELSE IF checked /\ ~isDownloadableFile(relativeString(fileName))
                    THEN answer(403, <<>>)
               ELSE IF ~readOk THEN answer(500, <<>>)
               ELSE answer(200, <<CHOOSE f \in target : TRUE>>)

\* FileController.serveJobFile with a fileName that may hold "/"
PathServeJobFile(j, fileName) ==
    /\ serverUp
    /\ resp' = pathRequest("serve", j, fileName, TRUE, TRUE)
    /\ UNCHANGED <<dirOrder, fs, now, faults, issued, jobs, procs, serverUp>>

\* FileController.copyToPublic: copyFileSync fails when the directory of
\* the destination, public/job-files/<jobId>/<fileName>, does not exist
PathCopyToPublic(j, fileName, destDirExists) ==
    /\ serverUp
    /\ resp' = pathRequest("copy", j, fileName, TRUE,
                           Len(fileName) = 1 \/ destDirExists)
    /\ UNCHANGED <<dirOrder, fs, now, faults, issued, jobs, procs, serverUp>>

\* FileController.getFileContent
PathGetFileContent(j, fileName) ==
    /\ serverUp
    /\ resp' = pathRequest("content", j, fileName, FALSE, TRUE)
    /\ UNCHANGED <<dirOrder, fs, now, faults, issued, jobs, procs, serverUp>>

PathJobs == {UuidPool[1], UuidPool[2]}

\* one request
NextPaths ==
    \/ \E j \in PathJobs, fileName \in RequestFileNames :
          resp = NoResp /\ PathServeJobFile(j, fileName)
    \/ \E j \in PathJobs, fileName \in RequestFileNames, d \in BOOLEAN :
          resp = NoResp /\ PathCopyToPublic(j, fileName, d)
    \/ \E j \in PathJobs, fileName \in RequestFileNames :
          resp = NoResp /\ PathGetFileContent(j, fileName)

SpecPaths == InitPaths /\ [][NextPaths]_vars

----------------------------------------------------------------------------
(* C32 *)

pathOps == {"serve", "copy", "content"}

\* the path the answered request resolves to lies in the directory of
\* the job it names
resolvesInside ==
    startsWithSegments(pathJoin(outputPathOf("colabfold", resp.id), resp.file),
                       outputPathOf("colabfold", resp.id))

\* C32: a file endpoint reads a file only from the directory of the job
\* the request names, and a fileName that resolves outside this directory
\* is answered 403 (404 when the job does not exist).
C32_FileStaysInJobDirectory ==
    resp.op \in pathOps =>
        /\ \A i \in 1..Len(resp.result) : resp.result[i].dir = resp.id
        /\ (~resolvesInside /\ isDirectory(fs, "colabfold", resp.id))
              => resp.code = 403

----------------------------------------------------------------------------
(* Clearing the jobs of a tool *)

\* DELETE /jobs/tool/:toolType/clear-all, up to the call of exec: the
\* tool is validated and its output directory is listed; `before` keeps
\* the tree the handler found
HttpClearAllToolJobs(toolType) ==
    /\ serverUp
    /\ resp = NoResp
    /\ LET dirs == jobDirs(fs, toolType, dirOrder)
           answer(op, code) ==
               [op |-> op, tool |-> toolType, id |-> "", code |-> code,
                result |-> dirs, before |-> fs]
       IN resp' = IF toolType \notin ConfigTools THEN answer("clear", 400)
                  ELSE IF dirs = <<>> THEN answer("clear", 200)
                  ELSE answer("clearing", 0)
    /\ UNCHANGED <<dirOrder, fs, now, faults, issued, jobs, procs, serverUp>>

RECURSIVE rmrfAll(_, _, _)
\* sudo rm -rf "<path>" "<path>" ...
rmrfAll(F, t, dirs) ==
    IF dirs = <<>> THEN F ELSE rmrfAll(rmrf(F, t, Head(dirs)), t, Tail(dirs))

\* the rm child is done and the callback of exec answers; a failed
\* command (sudo refuses) removes nothing
ClearExec(rmOk) ==
    /\ resp.op = "clearing"
    /\ fs' = IF rmOk THEN rmrfAll(fs, resp.tool, resp.result) ELSE fs
    /\ resp' = [resp EXCEPT !.op = "clear",
                            !.code = IF rmOk THEN 200 ELSE 500]
    /\ UNCHANGED <<dirOrder, now, faults, issued, jobs, procs, serverUp>>

\* the process of job j exits and the 'close' listener of
\* ExecutionManager runs to its end: the status snapshot, mkdir of the
\* output directory, the marker
ClearProcClose(j, code) ==
    /\ serverUp
    /\ procs[j]["em"].st = "running"
    /\ procs[j]["em"].watched
    /\ LET t == procs[j]["em"].tool
       IN fs' = writeFile(emOnClose(fs, t, j, code, now, TRUE), t, j,
                          emMarkerName(j, code), now, <<>>)
    /\ procs' = [procs EXCEPT ![j]["em"].st = "closed",
                              ![j]["em"].code = code]
    /\ UNCHANGED <<dirOrder, now, faults, issued, jobs, serverUp, resp>>

ClearTools == {"colabfold", "proteinmpnn", "haddock"}

\* one clear-all request; the process of a job started before it may end
\* at any time
NextClear ==
    \/ \E t \in ClearTools : HttpClearAllToolJobs(t)
    \/ \E rmOk \in BOOLEAN : ClearExec(rmOk)
    \/ \E j \in JobIds, code \in {0, 1} : ClearProcClose(j, code)

SpecClear == InitScan /\ [][NextClear]_vars

----------------------------------------------------------------------------
(* C33 *)

\* a process was started for directory j of tool t: its listener may write
\* there on its own account
hasProcess(t, j) ==
    j \in JobIds /\ \E s \in Sups : procs[j][s].st # "none" /\ procs[j][s].tool = t

\* C33: after clear-all of a tool has answered with success, and while no
\* job is created, the directories of every other tool are as the request
\* found them (but for what their own processes wrote) and the listing of
\* the cleared tool is empty.
C33_ClearRemovesExactlyTheTool ==
    (resp.op = "clear" /\ resp.code = 200) =>
        /\ \A t \in Tools \ {resp.tool}, j \in DirIds :
              ~hasProcess(t, j) => fs[t][j] = resp.before[t][j]
        /\ getAllJobs(fs, dirOrder,
                      [tool |-> resp.tool, status |-> "", limit |-> 0]) = <<>>

----------------------------------------------------------------------------
(* C34 *)

\* the answers of getJobStatus, getAllJobs (which calls getJobFiles for
\* every job) and of the handlers that call them and getJobStats
queryOps == {"getJobStatus", "getAllJobs", "status", "list"}

\* C34: a step in which getJobStatus, getAllJobs, getJobStats or
\* getJobFiles answers leaves every directory and file as it was.
C34_QueriesChangeNothing ==
    [][resp'.op \in queryOps => fs' = fs]_vars

\* getAllJobs has answered with a job whose directory holds files, and
\* the tree is there as before
C34_Witness ==
    /\ resp.op = "getAllJobs"
    /\ \E i \in 1..Len(resp.result) :
          /\ resp.result[i].files # {}
          /\ resp.result[i].files
                = DOMAIN fs[resp.result[i].tool][resp.result[i].id].files

----------------------------------------------------------------------------
(* C35 *)

\* the metadata file of directory j of tool t, if there is one
metaOf(F, t, j) ==
    IF F[t][j].kind = "dir" /\ MetaName(j) \in DOMAIN F[t][j].files
    THEN <<F[t][j].files[MetaName(j)]>>
    ELSE <<>>

----------------------------------------------------------------------------
(* A status query during the write of a marker *)

\* colabfold/output/u1 as the 'close' listener of ExecutionManager finds
\* it after its mkdir: any content but the marker it is about to write
InitMarker ==
    /\ \E code \in {0, 1}, mode \in {"ok", "nolist", "noread"},
          S \in SUBSET ResolverNames(UuidPool[1]),
          c1 \in LogContents, c2 \in LogContents :
          /\ emMarkerName(UuidPool[1], code) \notin S
          /\ LogName \notin S => c1 = <<>>
          /\ Log2Name(UuidPool[1]) \notin S => c2 = <<>>
          /\ fs = [EmptyFs EXCEPT !["colabfold"][UuidPool[1]] =
                    [kind |-> "dir", birthtime |-> 0, mode |-> mode,
                     files |-> [n \in S |->
                        File(0, IF n = LogName THEN c1
                                ELSE IF n = Log2Name(UuidPool[1]) THEN c2
                                ELSE markerContent(1))]]]
          /\ procs = [NoProcs EXCEPT ![UuidPool[1]]["em"] =
                        [st |-> "marker", tool |-> "colabfold",
                         code |-> code,
                         outdir |-> emPassesOutputDir("colabfold"),
                         watched |-> TRUE]]
    /\ dirOrder \in DirOrders
    /\ now = 0
    /\ faults = 0
    /\ issued = 0
    /\ jobs = NoJobs
    /\ serverUp = TRUE
    /\ resp = NoResp

\* fs.writeFile(marker, content) opens the file: it exists and is empty
MarkerOpen(j) ==
    /\ procs[j]["em"].st = "marker"
    /\ LET p == procs[j]["em"]
       IN fs' = writeFile(fs, p.tool, j, emMarkerName(j, p.code), now, <<>>)
    /\ procs' = [procs EXCEPT ![j]["em"].st = "writing"]
    /\ UNCHANGED <<dirOrder, now, faults, issued, jobs, serverUp, resp>>

\* the next part of the content reaches the file; after the last one the
\* listener is done
MarkerChunk(j) ==
    /\ procs[j]["em"].st = "writing"
    /\ LET p == procs[j]["em"]
           name == emMarkerName(j, p.code)
           sofar == fs[p.tool][j].files[name].lines
           next == SubSeq(markerContent(p.code), 1, Len(sofar) + 1)
       IN /\ fs' = writeFile(fs, p.tool, j, name, now, next)
          /\ procs' = [procs EXCEPT ![j]["em"].st =
                          IF next = markerContent(p.code) THEN "closed"
                          ELSE "writing"]
    /\ UNCHANGED <<dirOrder, now, faults, issued, jobs, serverUp, resp>>

\* the write of the marker, and a status query at any point of it
NextMarker ==
    \/ MarkerOpen(UuidPool[1])
    \/ MarkerChunk(UuidPool[1])
    \/ ResolveStatus("colabfold", UuidPool[1], dirOrder)

SpecMarker == InitMarker /\ [][NextMarker]_vars

----------------------------------------------------------------------------
(* C36 *)

\* the marker the listener of job u1 writes
theMarker == emMarkerName(UuidPool[1], procs[UuidPool[1]]["em"].code)

\* the tree with no such marker, and with the marker written to its end
beforeMarker ==
    [fs EXCEPT !["colabfold"][UuidPool[1]].files =
        [n \in (DOMAIN fs["colabfold"][UuidPool[1]].files) \ {theMarker} |->
            fs["colabfold"][UuidPool[1]].files[n]]]
afterMarker ==
    writeFile(fs, "colabfold", UuidPool[1], theMarker, now,
              markerContent(procs[UuidPool[1]]["em"].code))

\* C36: a status query at any point of the write of a done or error
\* marker answers what it would answer with no marker or what it answers
\* with the complete marker, and it does not throw.
C36_TornMarkerReadsAsWritten ==
    resp.op = "getJobStatus" =>
        /\ ~resp.result.thrown
        /\ resp.result.value \in
              {getJobStatus(beforeMarker, dirOrder, "colabfold",
                            UuidPool[1]).value,
               getJobStatus(afterMarker, dirOrder, "colabfold",
                            UuidPool[1]).value}

\* the query was answered `completed` while the done marker was only
\* partly written
C36_Witness ==
    /\ resp.op = "getJobStatus"
    /\ resp.result.value = "completed"
    /\ procs[UuidPool[1]]["em"].st = "writing"
    /\ fs["colabfold"][UuidPool[1]].files[theMarker].lines
          # markerContent(0)

====
